---- MODULE Spec2Model ----
(***************************************************************************)
(* Menu extraction pipeline of system_inspection_admin_web:                *)
(*   src/extract_menu.py            (standalone script)                    *)
(*   src/service/system_service.py  (in-process copy of the same logic)    *)
(*                                                                         *)
(* Strings are sequences of character codes (Unicode code points), so that *)
(* lower(), substring tests, whitespace cleaning and string ordering are   *)
(* computed rather than assumed.  A URL is the 4-tuple urlparse() yields   *)
(* for it (query and params are folded into the path identifier).          *)
(***************************************************************************)
EXTENDS Integers, Sequences, FiniteSets, TLC

\* ------------------------------------------------------------------ bounds
\* Largest depth argument tried.
MaxDepthArg == 2
\* Largest number of menu links on the site's root page.
MaxBulk == 51
\* Largest path and fragment identifiers of the links handed to normalize_url
\* on its own.
MaxPath == 1
MaxFrag == 1
\* Largest number of anchors of the documents handed to the classifier on its own.
MaxAnchors == 2
\* Largest number of ancestors of the anchor handed to derive_path on its own.
MaxChain == 3

\* ------------------------------------------------------- program constants
\* `if len(results) > 50: break`
ResultCap == 50
\* `if len(request_candidates) < 4:`
FallbackThreshold == 4

\* ------------------------------------------------------------ text helpers
SPACE == 32

IsWhitespace(c) == c \in {9, 10, 13, 32}

\* str.lower() on one code point (ASCII letters; the other code points the
\* model uses have no lower-case mapping).
LowerChar(c) == IF c >= 65 /\ c <= 90 THEN c + 32 ELSE c

LowerStr(s) == [i \in 1..Len(s) |-> LowerChar(s[i])]

\* `needle in hay`
Contains(hay, needle) ==
    \E i \in 0..(Len(hay) - Len(needle)) :
        \A j \in 1..Len(needle) : hay[i + j] = needle[j]

\* Lexicographic order of two strings by code point (Python's str order).
RECURSIVE StrLess(_, _)
StrLess(a, b) ==
    IF b = <<>> THEN FALSE
    ELSE IF a = <<>> THEN TRUE
    ELSE IF a[1] < b[1] THEN TRUE
    ELSE IF a[1] > b[1] THEN FALSE
    ELSE StrLess(Tail(a), Tail(b))

\* str.split(): the maximal runs of non-whitespace characters.
RECURSIVE SplitWords(_, _, _)
SplitWords(s, cur, acc) ==
    IF s = <<>> THEN (IF cur = <<>> THEN acc ELSE Append(acc, cur))
    ELSE IF IsWhitespace(s[1])
         THEN SplitWords(Tail(s), <<>>, IF cur = <<>> THEN acc ELSE Append(acc, cur))
         ELSE SplitWords(Tail(s), Append(cur, s[1]), acc)

\* " ".join(words)
RECURSIVE JoinSpace(_)
JoinSpace(words) ==
    IF words = <<>> THEN <<>>
    ELSE IF Len(words) = 1 THEN words[1]
    ELSE words[1] \o <<SPACE>> \o JoinSpace(Tail(words))

\* clean_text / _clean_text
clean_text(text) == JoinSpace(SplitWords(text, <<>>, <<>>))

FORBIDDEN_TEXT ==
    << <<112, 114, 105, 118, 97, 99, 121>>,                  \* privacy
       <<116, 101, 114, 109, 115>>,                           \* terms
       <<99, 111, 112, 121, 114, 105, 103, 104, 116>>,        \* copyright
       <<99, 111, 110, 116, 97, 99, 116, 45, 117, 115>>,      \* contact-us
       <<99, 111, 110, 116, 97, 99, 116, 32, 117, 115>>,      \* contact us
       <<51060, 47700, 51068, 47924, 45800, 49688, 51665>> >> \* 이메일무단수집

MENU_CLASS_HINTS ==
    << <<109, 101, 110, 117>>,                                \* menu
       <<110, 97, 118>>,                                      \* nav
       <<110, 97, 118, 98, 97, 114>>,                         \* navbar
       <<103, 110, 98>>,                                      \* gnb
       <<108, 110, 98>>,                                      \* lnb
       <<109, 97, 105, 110, 45, 110, 97, 118>>,               \* main-nav
       <<115, 105, 116, 101, 45, 110, 97, 118>>,              \* site-nav
       <<115, 105, 100, 101, 98, 97, 114>>,                   \* sidebar
       <<100, 114, 97, 119, 101, 114>>,                       \* drawer
       <<116, 111, 112, 98, 97, 114>> >>                      \* topbar

\* Mutant: the text is not lower-cased before the search.
text_is_forbidden_case_sensitive(text) ==
    \E k \in 1..Len(FORBIDDEN_TEXT) : Contains(text, FORBIDDEN_TEXT[k])

\* text_is_forbidden / _text_is_forbidden
text_is_forbidden(text) ==
    LET lowered == LowerStr(text)
    IN  \E k \in 1..Len(FORBIDDEN_TEXT) : Contains(lowered, FORBIDDEN_TEXT[k])

\* -------------------------------------------------------------------- URLs
\* Netlocs used by the model.
HostA == <<97, 46, 99, 111, 109>>        \* a.com
HostACaps == <<65, 46, 99, 111, 109>>    \* A.com
HostB == <<98, 46, 99, 111, 109>>        \* b.com

\* A parsed URL or href: scheme ("" when absent), netloc (<<>> when absent),
\* path (-1: empty path, 0: "/", k > 0: "/k"), frag (0: no fragment,
\* -1: a bare "#", k > 0: "#k").
Url(s, n, p, f) == [scheme |-> s, netloc |-> n, path |-> p, frag |-> f]

\* The empty string / None.
NoUrl == Url("", <<>>, -1, 0)

\* Schemes that carry a netloc and resolve relative references
\* (urllib.parse.uses_relative / uses_netloc, restricted to the model's schemes).
UsesRelative == {"http", "https", "ftp", ""}

\* urljoin(base, link) for a non-empty link.
urljoin(base, link) ==
    LET scheme == IF link.scheme = "" THEN base.scheme ELSE link.scheme
    IN  IF scheme # base.scheme \/ scheme \notin UsesRelative
        THEN link
        ELSE IF link.netloc # <<>>
        THEN Url(scheme, link.netloc, link.path, link.frag)
        ELSE IF link.path = -1
        THEN Url(scheme, base.netloc, base.path, link.frag)
        ELSE Url(scheme, base.netloc, link.path, link.frag)

\* link.startswith(("mailto:", "tel:", "javascript:"))
NonNavigational(link) == link.scheme \in {"mailto", "tel", "javascript"}

\* Mutant: any netloc that ends with the domain is let through.
normalize_url_suffix_match(base, link, domain) ==
    IF link = NoUrl THEN NoUrl
    ELSE IF NonNavigational(link) THEN NoUrl
    ELSE LET absolute == urljoin(base, link)
             host == LowerStr(absolute.netloc)
             dom == LowerStr(domain)
             ends == /\ Len(host) >= Len(dom)
                     /\ SubSeq(host, Len(host) - Len(dom) + 1, Len(host)) = dom
         IN  IF absolute.scheme \notin {"http", "https"} THEN NoUrl
             ELSE IF absolute.netloc # <<>> /\ ~ends THEN NoUrl
             ELSE [absolute EXCEPT !.frag = 0]

\* Mutant: the fragment is not removed.
normalize_url_keeps_fragment(base, link, domain) ==
    IF link = NoUrl THEN NoUrl
    ELSE IF NonNavigational(link) THEN NoUrl
    ELSE LET absolute == urljoin(base, link)
         IN  IF absolute.scheme \notin {"http", "https"} THEN NoUrl
             ELSE IF absolute.netloc # <<>>
                     /\ LowerStr(absolute.netloc) # LowerStr(domain)
             THEN NoUrl
             ELSE absolute

\* normalize_url / _normalize_url; NoUrl stands for None.
normalize_url(base, link, domain) ==
    IF link = NoUrl THEN NoUrl
    ELSE IF NonNavigational(link) THEN NoUrl
    ELSE LET absolute == urljoin(base, link)
         IN  IF absolute.scheme \notin {"http", "https"} THEN NoUrl
             ELSE IF absolute.netloc # <<>>
                     /\ LowerStr(absolute.netloc) # LowerStr(domain)
             THEN NoUrl
             ELSE [absolute EXCEPT !.frag = 0]

\* --------------------------------------------------------------------- DOM
\* An ancestor element of an anchor: tag name, role attribute, aria-label,
\* title and id attributes (<<>> when absent) and its class tokens.
Elem(name, role, aria, title, id, class) ==
    [name |-> name, role |-> role, aria |-> aria, title |-> title, id |-> id, class |-> class]

\* An <a href=...> element: its href, its text content and its ancestors
\* (Tag.parents: innermost first).
Anchor(href, text, anc) == [href |-> href, text |-> text, anc |-> anc]

\* a or b  (Python: the first truthy operand)
OrElse(a, b) == IF a # <<>> THEN a ELSE b

\* any(hint in " ".join(classes).lower() for hint in MENU_CLASS_HINTS)
HasMenuHint(classes) ==
    LET joined == LowerStr(JoinSpace(classes))
    IN  \E k \in 1..Len(MENU_CLASS_HINTS) : Contains(joined, MENU_CLASS_HINTS[k])

\* The label one ancestor contributes (<<>>: none).
AncestorLabel(e) ==
    IF e.name \in {"nav", "header"} THEN OrElse(e.aria, OrElse(e.title, e.id))
    ELSE IF e.name \in {"ul", "ol"} THEN OrElse(e.aria, JoinSpace(e.class))
    ELSE IF e.name \in {"section", "div"}
    THEN (IF HasMenuHint(e.class) THEN JoinSpace(e.class) ELSE <<>>)
    ELSE <<>>

InSeq(x, s) == \E i \in 1..Len(s) : s[i] = x

Reverse(s) == [i \in 1..Len(s) |-> s[Len(s) + 1 - i]]

RECURSIVE CollectLabels(_, _)
CollectLabels(anc, path) ==
    IF anc = <<>> THEN path
    ELSE LET label == clean_text(AncestorLabel(anc[1]))
         IN  CollectLabels(Tail(anc),
                 IF label # <<>> /\ ~InSeq(label, path) THEN Append(path, label) ELSE path)

\* Mutant: the path is returned as collected, innermost ancestor first.
derive_path_innermost_first(link) == CollectLabels(link.anc, <<>>)

\* derive_path / _derive_path
derive_path(link) == Reverse(CollectLabels(link.anc, <<>>))

\* A candidate map is a dict in insertion order: a sequence of entries with
\* pairwise distinct url keys.
HasKey(cands, key) == \E i \in 1..Len(cands) : cands[i].url = key

\* Mutant: the entry is stored without its path.
consider_link_without_path(cands, tag, base_url, domain) ==
    LET text == clean_text(tag.text)
        normalized == normalize_url(base_url, tag.href, domain)
    IN  IF text = <<>> \/ text_is_forbidden(text) THEN cands
        ELSE IF normalized = NoUrl THEN cands
        ELSE IF HasKey(cands, normalized) THEN cands
        ELSE Append(cands, [text |-> text, url |-> normalized])

\* Mutant: an anchor met later replaces the entry stored for its url.
consider_link_overwrite(cands, tag, base_url, domain) ==
    LET text == clean_text(tag.text)
        normalized == normalize_url(base_url, tag.href, domain)
        entry == [text |-> text, url |-> normalized, path |-> derive_path(tag)]
    IN  IF text = <<>> \/ text_is_forbidden(text) THEN cands
        ELSE IF normalized = NoUrl THEN cands
        ELSE IF HasKey(cands, normalized)
        THEN [i \in 1..Len(cands) |-> IF cands[i].url = normalized THEN entry ELSE cands[i]]
        ELSE Append(cands, entry)

\* consider_link(tag) on the candidates collected so far.
consider_link(cands, tag, base_url, domain) ==
    LET text == clean_text(tag.text)
        normalized == normalize_url(base_url, tag.href, domain)
    IN  IF text = <<>> \/ text_is_forbidden(text) THEN cands
        ELSE IF normalized = NoUrl THEN cands
        ELSE IF HasKey(cands, normalized) THEN cands
        ELSE Append(cands, [text |-> text, url |-> normalized, path |-> derive_path(tag)])

\* A loop over a sequence is unfolded half by half (first half, then second
\* half), which visits the elements in the loop's order.  The test on the
\* first half's result makes the evaluator finish it before the second half.
FirstHalf(s) == SubSeq(s, 1, Len(s) \div 2)
SecondHalf(s) == SubSeq(s, (Len(s) \div 2) + 1, Len(s))

RECURSIVE ConsiderAll(_, _, _, _)
ConsiderAll(cands, links, base_url, domain) ==
    IF links = <<>> THEN cands
    ELSE IF Len(links) = 1 THEN consider_link(cands, links[1], base_url, domain)
    ELSE LET first == ConsiderAll(cands, FirstHalf(links), base_url, domain)
         IN  IF Len(first) >= 0
             THEN ConsiderAll(first, SecondHalf(links), base_url, domain)
             ELSE first

IsNav(e) == e.name = "nav"
IsHeader(e) == e.name = "header"
IsRoleNav(e) == e.role = "navigation"
\* soup.select(".menu,.nav,..."): a class token equal to one of the hints.
IsHintClass(e) == \E i \in 1..Len(e.class) : InSeq(e.class[i], MENU_CLASS_HINTS)

\* Whether element e is matched by the selector.
Matches(selector, e) ==
    CASE selector = "nav" -> IsNav(e)
      [] selector = "header" -> IsHeader(e)
      [] selector = "[role='navigation']" -> IsRoleNav(e)
      [] OTHER -> IsHintClass(e)

HasAncestor(a, selector) == \E i \in 1..Len(a.anc) : Matches(selector, a.anc[i])

\* The anchors below the containers a selector matches, in the order the
\* nested loops over soup.select(...) / find_all("a") first reach them.
InContainers(page, selector) ==
    LET Pick(a) == HasAncestor(a, selector) IN SelectSeq(page, Pick)

\* Mutant: the anchors are taken in document order only.
SelectionOrderDocument(page) == page

\* The order in which extract_candidates_from_soup hands anchors to
\* consider_link: nav, header, [role='navigation'], hint classes, all anchors.
SelectionOrder(page) ==
    InContainers(page, "nav") \o InContainers(page, "header")
      \o InContainers(page, "[role='navigation']") \o InContainers(page, "hints") \o page

\* extract_candidates_from_soup / _extract_candidates_from_soup
extract_candidates_from_soup(page, base_url, domain) ==
    ConsiderAll(<<>>, SelectionOrder(page), base_url, domain)

\* Mutant: a later page's entry replaces the stored one.
MergeOneLastWins(results, value) ==
    IF HasKey(results, value.url)
    THEN [i \in 1..Len(results) |-> IF results[i].url = value.url THEN value ELSE results[i]]
    ELSE Append(results, value)

\* results[key] = value for every key of page_candidates not yet in results.
MergeOne(results, value) ==
    IF HasKey(results, value.url) THEN results ELSE Append(results, value)

RECURSIVE MergeFirstWins(_, _)
MergeFirstWins(results, page_candidates) ==
    IF page_candidates = <<>> THEN results
    ELSE IF Len(page_candidates) = 1 THEN MergeOne(results, page_candidates[1])
    ELSE LET first == MergeFirstWins(results, FirstHalf(page_candidates))
         IN  IF Len(first) >= 0
             THEN MergeFirstWins(first, SecondHalf(page_candidates))
             ELSE first

\* -------------------------------------------------------------- the site
\* The web site is the environment: what the server answers for a path.
\* Site n has a root page with a navigation bar of n menu links /1 .. /n.
TwoDigits(k) == <<48 + (k \div 10), 48 + (k % 10)>>

T_Menu(k) == <<77, 101, 110, 117>> \o TwoDigits(k)                  \* "Menu07"
T_About == <<32, 32, 65, 98, 111, 117, 116, 32, 32, 32, 85, 115, 32>> \* "  About   Us "
T_Contact == <<67, 111, 110, 116, 97, 99, 116, 32, 85, 115>>       \* "Contact Us"
T_Blank == <<32, 10>>                                               \* whitespace only
T_Dup == <<68, 117, 112>>                                           \* "Dup"
T_Mail == <<77, 97, 105, 108>>                                      \* "Mail"
T_Partner == <<80, 97, 114, 116, 110, 101, 114>>                    \* "Partner"
T_Home == <<72, 111, 109, 101>>                                     \* "Home"
T_Top == <<84, 111, 112>>                                           \* "Top"
T_Extra == <<69, 120, 116, 114, 97>>                                \* "Extra"
T_Board == <<66, 111, 97, 114, 100>>                                \* "Board"
T_JS == <<74, 83>>                                                  \* "JS"
T_home == <<104, 111, 109, 101>>                                    \* "home"
T_ContactCaps == <<67, 79, 78, 84, 65, 67, 84, 32, 32, 85, 83>>     \* "CONTACT  US"

\* <nav aria-label="Main">, <ul class="gnb">, <div class="sidebar">,
\* <div class="footer">, <header id="Top">
E_Nav == Elem("nav", "", <<77, 97, 105, 110>>, <<>>, <<>>, <<>>)
E_Ul == Elem("ul", "", <<>>, <<>>, <<>>, << <<103, 110, 98>> >>)
E_Side == Elem("div", "", <<>>, <<>>, <<>>, << <<115, 105, 100, 101, 98, 97, 114>> >>)
E_Foot == Elem("div", "", <<>>, <<>>, <<>>, << <<102, 111, 111, 116, 101, 114>> >>)
E_Head == Elem("header", "", <<>>, <<>>, T_Top, <<>>)

\* href="/k" and href="/k#f"
Rel(k) == Url("", <<>>, k, 0)
RelFrag(k, f) == Url("", <<>>, k, f)

RootPage(n) ==
    << Anchor(RelFrag(1, 2), T_Dup, <<E_Foot>>),
       Anchor(Rel(1), T_Blank, <<E_Ul, E_Nav>>) >>
    \o [k \in 1..n |-> Anchor(Rel(k), T_Menu(k), <<E_Ul, E_Nav>>)]
    \o << Anchor(Rel(900), T_Contact, <<E_Ul, E_Nav>>),
          Anchor(Url("mailto", <<>>, 5, 0), T_Mail, <<E_Foot>>),
          Anchor(Url("https", HostB, 1, 0), T_Partner, <<E_Foot>>) >>

\* The document the server sends for path p of site n (<<>>: no anchors).
Page(n, p) ==
    IF p \in {-1, 0} THEN RootPage(n)
    ELSE IF p = 1
    THEN << Anchor(Rel(0), T_Home, <<E_Foot>>),
            Anchor(Url("", <<>>, -1, -1), T_Top, <<E_Foot>>),
            Anchor(Rel(n + 1), T_Extra, <<E_Side>>),
            Anchor(Rel(901), T_ContactCaps, <<E_Side>>) >>
    ELSE IF p = 2
    THEN << Anchor(Rel(n + 1), T_Board, <<E_Nav>>),
            Anchor(Url("https", HostACaps, n + 2, 1), T_About, <<E_Head>>),
            \* href="http:/k" on an https site: a scheme, no authority
            Anchor(Url("http", <<>>, n + 4, 0), T_home, <<E_Foot>>) >>
    ELSE IF p = n + 1
    THEN << Anchor(Rel(1), T_Home, <<E_Foot>>),
            Anchor(Rel(n + 3), T_JS, <<E_Side>>) >>
    ELSE <<>>

\* What the headless browser's DOM holds for the root page after scripts ran:
\* nothing, the static document, or the static document plus script-made links.
RenderedPages(n) ==
    { <<>>,
      RootPage(n),
      RootPage(n) \o << Anchor(Rel(n + 1), T_JS, <<E_Side>>),
                        Anchor(Rel(1), T_Extra, <<E_Foot>>) >> }

\* Root-page sizes tried: around the fallback threshold and around the cap.
BulkSizes == {0, FallbackThreshold - 1, FallbackThreshold} \cup ((ResultCap - 1)..MaxBulk)

\* Seed URLs tried: "https://a.com", "https://A.com/#1", the scheme-less
\* "example.com" (urlparse puts it all in the path), "//a.com" (an authority,
\* no scheme) and "https:/1" (a scheme, no authority).
SeedPlain == Url("https", HostA, -1, 0)
SeedCaps == Url("https", HostACaps, 0, 1)
SeedBad == Url("", <<>>, 7, 0)
SeedNoScheme == Url("", HostA, -1, 0)
SeedNoAuthority == Url("https", <<>>, 1, 0)

\* The inputs of one run: seed, --depth and the site served.
Inputs ==
    [seed : {SeedPlain, SeedBad}, depth : -1..MaxDepthArg, n : BulkSizes]
      \cup [seed : {SeedCaps}, depth : -1..MaxDepthArg, n : {0, FallbackThreshold}]
      \cup [seed : {SeedNoScheme, SeedNoAuthority}, depth : {0, 1}, n : {FallbackThreshold}]

\* ------------------------------------------------------------------ state
VARIABLES
    seedUrl,            \* args.url / url
    depthArg,           \* args.depth / depth
    siteN,              \* the site served (environment)
    pc,                 \* where the run is
    domain,             \* parsed.netloc
    maxDepth,           \* the crawler's depth parameter: max(depth, 0)
    visited,            \* visited: set of urls
    queue,              \* queue: FIFO of (url, depth)
    results,            \* results: candidate map of the crawler
    fetchLog,           \* history: the tasks handed to session.get, in order
    last,               \* history: what the latest loop iteration did
    lastResp,           \* history: the response of the latest fetch
    failMark,           \* history: tasks queued at the latest failed fetch and not yet dequeued
    requestCandidates,  \* request_candidates
    pwCalls,            \* history: calls of fetch_with_playwright
    pwNav,              \* history: urls handed to page.goto
    driver,             \* sync_playwright(): "none", "running", "stopped"
    browser,            \* browser: "none", "open", "closed"
    context,            \* context: "none", "open", "closed"
    pwCandidates,       \* playwright_candidates / candidates of fetch_with_playwright
    pwExit,             \* how fetch_with_playwright ended: "none", "returned", "raised"
    source,             \* source
    candidates,         \* candidates
    menuList,           \* menu_list
    unitPc,             \* which function was called on its own, and how far
    nBase, nLink, nDomain,  \* normalize_url(base, link, domain): the arguments
    nOut,               \* ... and what it returned
    nLink2, nOut2,      \* a second link, equal to the first but for the fragment, and its result
    cSoup, cOut,        \* extract_candidates_from_soup(soup, ...): the document and the result
    hashSeed,           \* the interpreter's hash seed of this run (PYTHONHASHSEED)
    round,              \* which of two successive runs on the same site this is
    env,                \* what the site and the browser engine do, when fixed for both runs
    firstRun,           \* what the first of the two runs ended with
    frames,             \* the locals of each of the crawls running in threads side by side
    systems,            \* table inspection_systems: system_code -> record
    stored,             \* table inspection_system_menus: system_code -> rows
    calls,              \* the service calls in progress: their position and locals
    wrap                \* _collect_menu_candidates(url, depth): its position and what it ran

vars == <<seedUrl, depthArg, siteN, pc, domain, maxDepth, visited, queue, results,
          fetchLog, last, lastResp, failMark, requestCandidates, pwCalls, pwNav, driver,
          browser, context, pwCandidates, pwExit, source, candidates, menuList,
          unitPc, nBase, nLink, nDomain, nOut, nLink2, nOut2, cSoup, cOut,
          hashSeed, round, env, firstRun, frames, systems, stored, calls, wrap>>

inputVars == <<seedUrl, depthArg, siteN>>
crawlVars == <<visited, queue, results, fetchLog, last, lastResp, failMark>>
pwVars == <<pwCalls, pwNav, driver, browser, context, pwCandidates, pwExit>>
outVars == <<source, candidates, menuList>>
unitVars == <<unitPc, nBase, nLink, nDomain, nOut, nLink2, nOut2, cSoup, cOut>>
envVars == <<hashSeed, round, env, firstRun>>
pipelineVars == <<inputVars, pc, domain, maxDepth, crawlVars, requestCandidates, pwVars, outVars>>
concVars == <<frames>>
storeVars == <<systems, stored, calls>>
wrapVars == <<wrap>>
\* What the pipeline's own steps never write.
harnessVars == <<unitVars, envVars, concVars, storeVars, wrapVars>>

\* No crawl runs in a thread of its own, and no service call is in progress.
ConcIdle == frames = <<>>
\* _collect_menu_candidates has not been called.
WrapIdle == wrap = [pc |-> "idle"]
StoreIdle == systems = <<>> /\ stored = <<>> /\ calls = <<>>

\* The outcome of a run that has not ended, and an environment left open.
NoRun == [end |-> "none", source |-> "none", candidates |-> <<>>, menus |-> <<>>,
          fetched |-> <<>>, seed |-> 0]
NoEnv == [bad |-> {}, how |-> "any", pw |-> "any", html |-> <<>>]

\* A single run, with any behaviour of the site and the engine.
EnvOpen ==
    /\ hashSeed = 0
    /\ round = 1
    /\ env = NoEnv
    /\ firstRun = NoRun

\* No function has been called on its own.
UnitIdle ==
    /\ nBase = NoUrl
    /\ nLink = NoUrl
    /\ nDomain = <<>>
    /\ nOut = NoUrl
    /\ nLink2 = NoUrl
    /\ nOut2 = NoUrl
    /\ cSoup = <<>>
    /\ cOut = <<>>

\* The locals of a run that has not started.
LocalsEmpty ==
    /\ domain = <<>>
    /\ maxDepth = 0
    /\ visited = {}
    /\ queue = <<>>
    /\ results = <<>>
    /\ fetchLog = <<>>
    /\ last = "none"
    /\ lastResp = [status |-> 0, ctype |-> <<>>]
    /\ failMark = 0
    /\ requestCandidates = <<>>
    /\ pwCalls = 0
    /\ pwNav = <<>>
    /\ driver = "none"
    /\ browser = "none"
    /\ context = "none"
    /\ pwCandidates = <<>>
    /\ pwExit = "none"
    /\ source = "none"
    /\ candidates = <<>>
    /\ menuList = <<>>

PipelineStart == pc = "start" /\ LocalsEmpty

Init ==
    /\ \E i \in Inputs : seedUrl = i.seed /\ depthArg = i.depth /\ siteN = i.n
    /\ PipelineStart
    /\ unitPc = "off"
    /\ UnitIdle
    /\ EnvOpen
    /\ ConcIdle
    /\ WrapIdle
    /\ StoreIdle

\* ---------------------------------------------------------- static crawler
Max(a, b) == IF a >= b THEN a ELSE b

Task(url, depth) == [url |-> url, depth |-> depth]

\* Mutant: only a seed that lacks both parts is refused.
SeedMalformedBoth(url) == url.scheme = "" /\ url.netloc = <<>>

\* `if not parsed.scheme or not parsed.netloc`
SeedMalformed(url) == url.scheme = "" \/ url.netloc = <<>>

\* Mutant: the visited test never finds the url.
AlreadyVisitedNever(url, seen) == FALSE

\* `if current_url in visited: continue`
AlreadyVisited(url, seen) == url \in seen

\* Mutant: the head is read but not removed.
DequeueKeeps(q) == q

\* queue.popleft(): what is left of the queue
Dequeue(q) == Tail(q)

\* Mutant: the depth test is off by one.
WithinDepthOffByOne(current_depth, depth) == current_depth <= depth

\* `if current_depth + 1 <= depth:`
WithinDepth(current_depth, depth) == current_depth + 1 <= depth

\* Mutant: the cap test also stops at exactly 50 entries.
OverCapInclusive(res) == Len(res) >= ResultCap

\* Mutant: the cap test is off by one.
OverCapLate(res) == Len(res) > ResultCap + 1

\* `if len(results) > 50: break`
OverCap(res) == Len(res) > ResultCap

\* What session.get returned: the status code and the content-type header
\* ("" when the header is missing).  NoResponse: the call raised.
Response(status, ctype) == [status |-> status, ctype |-> ctype]
NoResponse == Response(0, <<>>)

CT_Html == <<84, 101, 120, 116, 47, 72, 84, 77, 76, 59, 32, 99, 104, 97, 114, 115,
             101, 116, 61, 85, 84, 70, 45, 56>>              \* "Text/HTML; charset=UTF-8"
CT_Pdf == <<97, 112, 112, 108, 105, 99, 97, 116, 105, 111, 110, 47, 112, 100, 102>>
                                                             \* "application/pdf"

\* The responses a server may give for a url (the body is the page either way).
Responses ==
    { Response(200, CT_Html), Response(400, CT_Html), Response(200, CT_Pdf),
      Response(200, <<>>) }

\* Mutant: status 400 itself is let through.
IsErrorStatusStrict(status) == status > 400

\* `if resp.status_code >= 400`
IsErrorStatus(status) == status >= 400

\* `"html" in content_type.lower()`
HasHtmlMarker(content_type) == Contains(LowerStr(content_type), <<104, 116, 109, 108>>)

\* Mutant: the visited test is missing.
EnqueueOneUnchecked(q, link, current_url, current_depth, dom, seen) ==
    LET normalized == normalize_url(current_url, link.href, dom)
    IN  IF normalized # NoUrl
        THEN Append(q, Task(normalized, current_depth + 1))
        ELSE q

\* Mutant: only the anchors the classifier would keep are followed.
EnqueueOneClassified(q, link, current_url, current_depth, dom, seen) ==
    LET normalized == normalize_url(current_url, link.href, dom)
    IN  IF /\ normalized # NoUrl
           /\ normalized \notin seen
           /\ clean_text(link.text) # <<>>
           /\ ~text_is_forbidden(clean_text(link.text))
        THEN Append(q, Task(normalized, current_depth + 1))
        ELSE q

\* Mutant: queue.appendleft instead of queue.append.
EnqueueOneFront(q, link, current_url, current_depth, dom, seen) ==
    LET normalized == normalize_url(current_url, link.href, dom)
    IN  IF normalized # NoUrl /\ normalized \notin seen
        THEN <<Task(normalized, current_depth + 1)>> \o q
        ELSE q

\* The loop over soup.find_all("a", href=True) that appends to the queue.
EnqueueOne(q, link, current_url, current_depth, dom, seen) ==
    LET normalized == normalize_url(current_url, link.href, dom)
    IN  IF normalized # NoUrl /\ normalized \notin seen
        THEN Append(q, Task(normalized, current_depth + 1))
        ELSE q

RECURSIVE EnqueueLinks(_, _, _, _, _, _)
EnqueueLinks(q, links, current_url, current_depth, dom, seen) ==
    IF links = <<>> THEN q
    ELSE IF Len(links) = 1
    THEN EnqueueOne(q, links[1], current_url, current_depth, dom, seen)
    ELSE LET first == EnqueueLinks(q, FirstHalf(links), current_url, current_depth, dom, seen)
         IN  IF Len(first) >= 0
             THEN EnqueueLinks(first, SecondHalf(links), current_url, current_depth, dom, seen)
             ELSE first

\* Mutant: the hrefs are gathered in a set, whose iteration order depends on
\* the interpreter's hash seed.
LinkOrderHashed(links, seed) == IF seed = 0 THEN links ELSE Reverse(links)

\* soup.find_all("a", href=True) yields the anchors in document order,
\* whatever the hash seed.
LinkOrder(links, seed) == links

\* Entry of main / _collect_menu_candidates_internal with a malformed seed:
\* sys.exit(1) / raise ValueError before anything else happens.
RejectSeed ==
    /\ pc = "start"
    /\ SeedMalformed(seedUrl)
    /\ pc' = "input_error"
    /\ UNCHANGED <<harnessVars, inputVars, domain, maxDepth, crawlVars, requestCandidates, pwVars, outVars>>

\* Entry with a well-formed seed, up to the first test of `while queue`.
StartCrawl ==
    /\ pc = "start"
    /\ ~SeedMalformed(seedUrl)
    /\ domain' = seedUrl.netloc
    /\ maxDepth' = Max(depthArg, 0)
    /\ visited' = {}
    /\ results' = <<>>
    /\ queue' = <<Task(seedUrl, 0)>>
    /\ pc' = "crawl"
    /\ UNCHANGED <<harnessVars, inputVars, fetchLog, last, lastResp, failMark, requestCandidates, pwVars, outVars>>

\* One iteration that finds the dequeued url in visited.
CrawlSkipVisited ==
    /\ pc = "crawl"
    /\ queue # <<>>
    /\ AlreadyVisited(Head(queue).url, visited)
    /\ queue' = Dequeue(queue)
    /\ last' = "skip"
    /\ failMark' = Max(failMark - 1, 0)
    /\ UNCHANGED <<harnessVars, inputVars, pc, domain, maxDepth, visited, results, fetchLog, lastResp,
                   requestCandidates, pwVars, outVars>>

\* One iteration whose session.get raises requests.RequestException:
\* logged, `continue`.
CrawlFetchError ==
    /\ pc = "crawl"
    /\ queue # <<>>
    /\ ~AlreadyVisited(Head(queue).url, visited)
    /\ visited' = visited \cup {Head(queue).url}
    /\ fetchLog' = Append(fetchLog, Head(queue))
    /\ queue' = Dequeue(queue)
    /\ last' = "error"
    /\ lastResp' = NoResponse
    /\ failMark' = Len(queue')
    /\ UNCHANGED <<harnessVars, inputVars, pc, domain, maxDepth, results, requestCandidates, pwVars, outVars>>

\* One iteration whose session.get returns a response.
CrawlFetchResponse ==
    /\ pc = "crawl"
    /\ queue # <<>>
    /\ ~AlreadyVisited(Head(queue).url, visited)
    \* a url without an authority never reaches a server
    /\ Head(queue).url.netloc # <<>>
    /\ \E resp \in Responses :
         LET current_url == Head(queue).url
             current_depth == Head(queue).depth
             soup == Page(siteN, current_url.path)
             page_candidates == extract_candidates_from_soup(soup, current_url, domain)
             merged == MergeFirstWins(results, page_candidates)
             rest == Dequeue(queue)
             seen == visited \cup {current_url}
             q2 == IF WithinDepth(current_depth, maxDepth)
                   THEN EnqueueLinks(rest, LinkOrder(soup, hashSeed), current_url,
                                     current_depth, domain, seen)
                   ELSE rest
         IN  /\ visited' = seen
             /\ fetchLog' = Append(fetchLog, Head(queue))
             /\ lastResp' = resp
             /\ IF IsErrorStatus(resp.status)
                THEN \* `if resp.status_code >= 400: continue`
                     /\ last' = "status"
                     /\ queue' = rest
                     /\ failMark' = Len(rest)
                     /\ UNCHANGED <<pc, results, requestCandidates>>
                ELSE IF ~HasHtmlMarker(resp.ctype)
                THEN \* `if "html" not in content_type.lower(): continue`
                     /\ last' = "nonhtml"
                     /\ queue' = rest
                     /\ failMark' = Len(rest)
                     /\ UNCHANGED <<pc, results, requestCandidates>>
                ELSE /\ last' = "ok"
                     /\ results' = merged
                     /\ queue' = q2
                     /\ failMark' = Max(failMark - 1, 0)
                     /\ IF OverCap(merged)
                        THEN pc' = "crawled" /\ requestCandidates' = merged
                        ELSE pc' = pc /\ requestCandidates' = requestCandidates
    /\ UNCHANGED <<harnessVars, inputVars, domain, maxDepth, pwVars, outVars>>

\* `while queue` finds the queue empty: return results.
CrawlQueueEmpty ==
    /\ pc = "crawl"
    /\ queue = <<>>
    /\ pc' = "crawled"
    /\ requestCandidates' = results
    /\ UNCHANGED <<harnessVars, inputVars, domain, maxDepth, crawlVars, pwVars, outVars>>

\* ------------------------------------------------------------ orchestrator
\* Mutant: the threshold test is inclusive.
NeedsFallbackInclusive(request_candidates) == Len(request_candidates) <= FallbackThreshold

\* `if len(request_candidates) < 4:`
NeedsFallback(request_candidates) == Len(request_candidates) < FallbackThreshold

\* Mutant: the source is marked as soon as the rendering crawler was called.
SelectSourceAlwaysRendered(request_candidates, playwright_candidates) == "playwright"

\* Mutant: the rendered candidates are merged into the static ones.
SelectCandidatesMerged(request_candidates, playwright_candidates) ==
    MergeFirstWins(request_candidates, playwright_candidates)

\* `if playwright_candidates: source = "playwright"; candidates = playwright_candidates`
SelectSource(request_candidates, playwright_candidates) ==
    IF playwright_candidates # <<>> THEN "playwright" ELSE "requests"

SelectCandidates(request_candidates, playwright_candidates) ==
    IF playwright_candidates # <<>> THEN playwright_candidates ELSE request_candidates

\* The static crawl has returned: source = "requests", candidates =
\* request_candidates, then call the rendering crawler or go on to the sort.
AfterCrawl ==
    /\ pc = "crawled"
    /\ source' = "requests"
    /\ candidates' = requestCandidates
    /\ IF NeedsFallback(requestCandidates)
       THEN pc' = "pw_import" /\ pwCalls' = pwCalls + 1
       ELSE pc' = "sort" /\ pwCalls' = pwCalls
    /\ UNCHANGED <<harnessVars, inputVars, domain, maxDepth, crawlVars, requestCandidates,
                   pwNav, driver, browser, context, pwCandidates, pwExit, menuList>>

\* ------------------------------------------------------- rendering crawler
\* An exception leaves the `with sync_playwright()` block: the driver is
\* stopped by __exit__ and the exception reaches the orchestrator, which has
\* no handler for it.
PwRaise ==
    /\ driver' = "stopped"
    /\ pwExit' = "raised"
    /\ pc' = "raised"

\* `from playwright.sync_api import sync_playwright` raises ImportError.
PwImportError ==
    /\ pc = "pw_import"
    /\ pwCandidates' = <<>>
    /\ pwExit' = "returned"
    /\ pc' = "pw_returned"
    /\ UNCHANGED <<harnessVars, inputVars, domain, maxDepth, crawlVars, requestCandidates,
                   pwCalls, pwNav, driver, browser, context, outVars>>

\* The import succeeds; candidates = {}; the with block is entered.
PwEnter ==
    /\ pc = "pw_import"
    /\ pwCandidates' = <<>>
    /\ driver' = "running"
    /\ pc' = "pw_launch"
    /\ UNCHANGED <<harnessVars, inputVars, domain, maxDepth, crawlVars, requestCandidates,
                   pwCalls, pwNav, browser, context, pwExit, outVars>>

\* browser = p.chromium.launch(headless=True)
PwLaunchOk ==
    /\ pc = "pw_launch"
    /\ browser' = "open"
    /\ pc' = "pw_context"
    /\ UNCHANGED <<harnessVars, inputVars, domain, maxDepth, crawlVars, requestCandidates,
                   pwCalls, pwNav, driver, context, pwCandidates, pwExit, outVars>>

\* launch raises (no browser executable installed, sandbox failure).
PwLaunchFail ==
    /\ pc = "pw_launch"
    /\ PwRaise
    /\ UNCHANGED <<harnessVars, inputVars, domain, maxDepth, crawlVars, requestCandidates,
                   pwCalls, pwNav, browser, context, pwCandidates, outVars>>

\* context = browser.new_context(user_agent=user_agent)
PwContextOk ==
    /\ pc = "pw_context"
    /\ context' = "open"
    /\ pc' = "pw_page"
    /\ UNCHANGED <<harnessVars, inputVars, domain, maxDepth, crawlVars, requestCandidates,
                   pwCalls, pwNav, driver, browser, pwCandidates, pwExit, outVars>>

\* new_context raises: outside the try, so the finally clause does not run.
PwContextFail ==
    /\ pc = "pw_context"
    /\ PwRaise
    /\ UNCHANGED <<harnessVars, inputVars, domain, maxDepth, crawlVars, requestCandidates,
                   pwCalls, pwNav, browser, context, pwCandidates, outVars>>

\* page = context.new_page()
PwPageOk ==
    /\ pc = "pw_page"
    /\ pc' = "pw_goto"
    /\ UNCHANGED <<harnessVars, inputVars, domain, maxDepth, crawlVars, requestCandidates,
                   pwVars, outVars>>

\* new_page raises: outside the try as well.
PwPageFail ==
    /\ pc = "pw_page"
    /\ PwRaise
    /\ UNCHANGED <<harnessVars, inputVars, domain, maxDepth, crawlVars, requestCandidates,
                   pwCalls, pwNav, browser, context, pwCandidates, outVars>>

\* Mutant: the links of the rendered page are visited as well.
NavTargetsFollowLinks(url, soup) == <<url>> \o [i \in 1..Len(soup) |-> soup[i].href]

\* The urls handed to page.goto in one invocation: the url argument only.
NavTargets(url, soup) == <<url>>

\* page.goto(url, ...) succeeds; page.content() is parsed and classified.
PwGotoOk ==
    /\ pc = "pw_goto"
    /\ \E html \in RenderedPages(siteN) :
           /\ pwNav' = pwNav \o NavTargets(seedUrl, html)
           /\ pwCandidates' = extract_candidates_from_soup(html, seedUrl, domain)
    /\ pc' = "pw_finally"
    /\ UNCHANGED <<harnessVars, inputVars, domain, maxDepth, crawlVars, requestCandidates,
                   pwCalls, driver, browser, context, pwExit, outVars>>

\* page.goto or page.content raises: caught by `except Exception`, logged.
PwGotoFail ==
    /\ pc = "pw_goto"
    /\ pwNav' = pwNav \o NavTargets(seedUrl, <<>>)
    /\ pc' = "pw_finally"
    /\ UNCHANGED <<harnessVars, inputVars, domain, maxDepth, crawlVars, requestCandidates,
                   pwCalls, driver, browser, context, pwCandidates, pwExit, outVars>>

\* finally: context.close()
PwCloseContextOk ==
    /\ pc = "pw_finally"
    /\ context' = "closed"
    /\ pc' = "pw_close_browser"
    /\ UNCHANGED <<harnessVars, inputVars, domain, maxDepth, crawlVars, requestCandidates,
                   pwCalls, pwNav, driver, browser, pwCandidates, pwExit, outVars>>

\* context.close() raises: browser.close() is skipped.
PwCloseContextFail ==
    /\ pc = "pw_finally"
    /\ PwRaise
    /\ UNCHANGED <<harnessVars, inputVars, domain, maxDepth, crawlVars, requestCandidates,
                   pwCalls, pwNav, browser, context, pwCandidates, outVars>>

\* browser.close(), the with block ends, return candidates.
PwCloseBrowserOk ==
    /\ pc = "pw_close_browser"
    /\ browser' = "closed"
    /\ driver' = "stopped"
    /\ pwExit' = "returned"
    /\ pc' = "pw_returned"
    /\ UNCHANGED <<harnessVars, inputVars, domain, maxDepth, crawlVars, requestCandidates,
                   pwCalls, pwNav, context, pwCandidates, outVars>>

\* browser.close() raises.
PwCloseBrowserFail ==
    /\ pc = "pw_close_browser"
    /\ PwRaise
    /\ UNCHANGED <<harnessVars, inputVars, domain, maxDepth, crawlVars, requestCandidates,
                   pwCalls, pwNav, browser, context, pwCandidates, outVars>>

\* Mutant: an empty rendering result is retried once.
AfterPlaywrightRetry ==
    /\ pc = "pw_returned"
    /\ source' = SelectSource(requestCandidates, pwCandidates)
    /\ candidates' = SelectCandidates(requestCandidates, pwCandidates)
    /\ IF pwCandidates = <<>> /\ pwCalls < 2
       THEN pc' = "pw_import" /\ pwCalls' = pwCalls + 1
       ELSE pc' = "sort" /\ pwCalls' = pwCalls
    /\ UNCHANGED <<harnessVars, inputVars, domain, maxDepth, crawlVars, requestCandidates,
                   pwNav, driver, browser, context, pwCandidates, pwExit, menuList>>

\* Back in the orchestrator with playwright_candidates.
AfterPlaywright ==
    /\ pc = "pw_returned"
    /\ source' = SelectSource(requestCandidates, pwCandidates)
    /\ candidates' = SelectCandidates(requestCandidates, pwCandidates)
    /\ pc' = "sort"
    /\ UNCHANGED <<harnessVars, inputVars, domain, maxDepth, crawlVars, requestCandidates, pwVars, menuList>>

\* -------------------------------------------------------------------- sort
RECURSIVE Decimal(_)
Decimal(k) == IF k < 10 THEN <<48 + k>> ELSE Decimal(k \div 10) \o <<48 + (k % 10)>>

SchemeStr(s) ==
    IF s = "https" THEN <<104, 116, 116, 112, 115>>
    ELSE IF s = "http" THEN <<104, 116, 116, 112>>
    ELSE <<>>

\* geturl() of a fragment-free http(s) url: "scheme://netloc/path".
UrlStr(u) ==
    SchemeStr(u.scheme) \o <<58, 47, 47>> \o u.netloc
      \o (IF u.path = -1 THEN <<>> ELSE <<47>> \o (IF u.path = 0 THEN <<>> ELSE Decimal(u.path)))

\* Mutant: the key's text is not lower-cased.
KeyLessCaseSensitive(a, b) ==
    \/ StrLess(a.text, b.text)
    \/ a.text = b.text /\ StrLess(UrlStr(a.url), UrlStr(b.url))

\* key=lambda item: (item["text"].lower(), item["url"]); a < b on the keys
KeyLess(a, b) ==
    LET ta == LowerStr(a.text)
        tb == LowerStr(b.text)
    IN  \/ StrLess(ta, tb)
        \/ ta = tb /\ StrLess(UrlStr(a.url), UrlStr(b.url))

\* Insert x behind every element whose key is not greater (sorted() is stable).
RECURSIVE InsertByKey(_, _)
InsertByKey(sorted, x) ==
    IF sorted = <<>> THEN <<x>>
    ELSE IF KeyLess(x, sorted[1]) THEN <<x>> \o sorted
    ELSE <<sorted[1]>> \o InsertByKey(Tail(sorted), x)

RECURSIVE SortByKey(_, _)
SortByKey(items, acc) ==
    IF items = <<>> THEN acc
    ELSE IF Len(items) = 1 THEN InsertByKey(acc, items[1])
    ELSE LET first == SortByKey(FirstHalf(items), acc)
         IN  IF Len(first) >= 0 THEN SortByKey(SecondHalf(items), first) ELSE first

\* menu_list = sorted(candidates.values(), key=...), then the payload is built.
SortAndReturn ==
    /\ pc = "sort"
    /\ menuList' = SortByKey(candidates, <<>>)
    /\ pc' = "done"
    /\ UNCHANGED <<harnessVars, inputVars, domain, maxDepth, crawlVars, requestCandidates, pwVars,
                   source, candidates>>

\* ----------------------------------------------------------- specification
Next ==
    \/ RejectSeed
    \/ StartCrawl
    \/ CrawlSkipVisited
    \/ CrawlFetchError
    \/ CrawlFetchResponse
    \/ CrawlQueueEmpty
    \/ AfterCrawl
    \/ PwImportError
    \/ PwEnter
    \/ PwLaunchOk
    \/ PwLaunchFail
    \/ PwContextOk
    \/ PwContextFail
    \/ PwPageOk
    \/ PwPageFail
    \/ PwGotoOk
    \/ PwGotoFail
    \/ PwCloseContextOk
    \/ PwCloseContextFail
    \/ PwCloseBrowserOk
    \/ PwCloseBrowserFail
    \/ AfterPlaywright
    \/ SortAndReturn

Spec == Init /\ [][Next]_vars

\* One iteration (or the exit) of the crawler's `while queue` loop.
CrawlStep ==
    \/ CrawlQueueEmpty
    \/ CrawlSkipVisited
    \/ CrawlFetchError
    \/ CrawlFetchResponse

\* The thread that runs the crawler keeps running it: while the loop can
\* take a step it eventually takes one (session.get returns or raises within
\* its timeout).
FairSpec == Spec /\ WF_vars(CrawlStep)

\* ------------------------------------------- two runs on an unchanged site
\* The site and the browser engine are fixed up front: which pages fail and
\* how, how the rendering attempt ends and what the rendered DOM holds. The
\* program is run, its outcome is kept, and it is run again in a fresh
\* process (its own hash seed) with the same parameters.
MaxBadPath == 2
HashSeeds == {0, 1}
FetchFailures == {"error", "status", "nonhtml"}
PwOutcomes ==
    {"import_error", "launch_fail", "context_fail", "page_fail", "goto_fail",
     "close_context_fail", "close_browser_fail", "ok"}

Envs(n) ==
    [bad : {{}} \cup {{p} : p \in 1..MaxBadPath}, how : FetchFailures,
     pw : PwOutcomes, html : RenderedPages(n) \ {<<>>}]

ReplayInputs ==
    [seed : {SeedPlain}, depth : {0, MaxDepthArg}, n : {FallbackThreshold - 2, FallbackThreshold}]
      \cup [seed : {SeedBad}, depth : {0}, n : {FallbackThreshold}]

\* What the fixed site answers for a url.
FetchOutcome(url) ==
    IF url.netloc = <<>> THEN "error"
    ELSE IF url.path \in env.bad THEN env.how
    ELSE "ok"

\* The step taken is the one the fixed site and engine allow.
Conforms ==
    /\ fetchLog' # fetchLog =>
          /\ last' = FetchOutcome(fetchLog'[Len(fetchLog')].url)
          /\ last' = "ok" => lastResp' = Response(200, CT_Html)
          /\ last' = "status" => lastResp' = Response(400, CT_Html)
          /\ last' = "nonhtml" => lastResp' = Response(200, CT_Pdf)
    /\ pc = "pw_import" => (pc' = "pw_returned" <=> env.pw = "import_error")
    /\ pc = "pw_launch" => (pc' = "raised" <=> env.pw = "launch_fail")
    /\ pc = "pw_context" => (pc' = "raised" <=> env.pw = "context_fail")
    /\ pc = "pw_page" => (pc' = "raised" <=> env.pw = "page_fail")
    /\ pc = "pw_goto" =>
          pwCandidates' = IF env.pw = "goto_fail" THEN pwCandidates
                          ELSE extract_candidates_from_soup(env.html, seedUrl, domain)
    /\ pc = "pw_finally" => (pc' = "raised" <=> env.pw = "close_context_fail")
    /\ pc = "pw_close_browser" => (pc' = "raised" <=> env.pw = "close_browser_fail")

\* How a run ended and what it produced.
Ended == pc \in {"done", "input_error", "raised"}

Outcome ==
    [end |-> pc, source |-> source, candidates |-> candidates, menus |-> menuList,
     fetched |-> fetchLog, seed |-> hashSeed]

\* The first run has ended: keep its outcome and start the program again.
Restart ==
    /\ round = 1
    /\ Ended
    /\ firstRun' = Outcome
    /\ round' = 2
    /\ hashSeed' \in HashSeeds
    /\ pc' = "start"
    /\ domain' = <<>>
    /\ maxDepth' = 0
    /\ visited' = {}
    /\ queue' = <<>>
    /\ results' = <<>>
    /\ fetchLog' = <<>>
    /\ last' = "none"
    /\ lastResp' = [status |-> 0, ctype |-> <<>>]
    /\ failMark' = 0
    /\ requestCandidates' = <<>>
    /\ pwCalls' = 0
    /\ pwNav' = <<>>
    /\ driver' = "none"
    /\ browser' = "none"
    /\ context' = "none"
    /\ pwCandidates' = <<>>
    /\ pwExit' = "none"
    /\ source' = "none"
    /\ candidates' = <<>>
    /\ menuList' = <<>>
    /\ UNCHANGED <<inputVars, unitVars, env, concVars, storeVars, wrapVars>>

ReplayInit ==
    /\ \E i \in ReplayInputs :
          /\ seedUrl = i.seed /\ depthArg = i.depth /\ siteN = i.n
          /\ env \in Envs(i.n)
    /\ PipelineStart
    /\ unitPc = "off"
    /\ UnitIdle
    /\ hashSeed \in HashSeeds
    /\ round = 1
    /\ firstRun = NoRun
    /\ ConcIdle
    /\ WrapIdle
    /\ StoreIdle

ReplayNext ==
    \/ RejectSeed /\ Conforms
    \/ StartCrawl /\ Conforms
    \/ CrawlSkipVisited /\ Conforms
    \/ CrawlFetchError /\ Conforms
    \/ CrawlFetchResponse /\ Conforms
    \/ CrawlQueueEmpty /\ Conforms
    \/ AfterCrawl /\ Conforms
    \/ PwImportError /\ Conforms
    \/ PwEnter /\ Conforms
    \/ PwLaunchOk /\ Conforms
    \/ PwLaunchFail /\ Conforms
    \/ PwContextOk /\ Conforms
    \/ PwContextFail /\ Conforms
    \/ PwPageOk /\ Conforms
    \/ PwPageFail /\ Conforms
    \/ PwGotoOk /\ Conforms
    \/ PwGotoFail /\ Conforms
    \/ PwCloseContextOk /\ Conforms
    \/ PwCloseContextFail /\ Conforms
    \/ PwCloseBrowserOk /\ Conforms
    \/ PwCloseBrowserFail /\ Conforms
    \/ AfterPlaywright /\ Conforms
    \/ SortAndReturn /\ Conforms
    \/ Restart

ReplaySpec == ReplayInit /\ [][ReplayNext]_vars

\* ------------------------------------------------ crawls running side by side
\* collect_system_menus hands each extraction to a worker thread
\* (asyncio.to_thread), so two crawls may run interleaved. Each call of
\* _fetch_with_requests has its own visited, results and queue; a frame holds
\* them, together with the call's arguments and the pages of its site that
\* fail to load.
RunIds == {1, 2}

ConcInputs ==
    [seed : {SeedPlain}, depth : {1, MaxDepthArg}, n : {1, FallbackThreshold},
     bad : {{}, {1}}]

\* (fetched is the history of the urls the call passed to session.get)
Frame(in, at, dom, depth, seen, q, res) ==
    [in |-> in, pc |-> at, domain |-> dom, maxDepth |-> depth, visited |-> seen,
     queue |-> q, results |-> res, fetched |-> <<>>]

\* The call has been made and nothing has run yet.
FrameIdle(in) == Frame(in, "idle", <<>>, 0, {}, <<>>, <<>>)

\* visited = set(); results = {}; queue = deque([(start_url, 0)])
FrameStarted(in) ==
    Frame(in, "crawl", in.seed.netloc, Max(in.depth, 0), {}, <<Task(in.seed, 0)>>, <<>>)

\* One pass through the `while queue` loop on the locals of frame f, or its
\* exit; the steps are those of CrawlQueueEmpty, CrawlSkipVisited,
\* CrawlFetchError and CrawlFetchResponse.
FrameStep(f) ==
    IF f.queue = <<>> THEN [f EXCEPT !.pc = "returned"]
    ELSE LET current_url == Head(f.queue).url
             current_depth == Head(f.queue).depth
             rest == Dequeue(f.queue)
             seen == f.visited \cup {current_url}
             soup == Page(f.in.n, current_url.path)
             merged == MergeFirstWins(f.results,
                           extract_candidates_from_soup(soup, current_url, f.domain))
             q2 == IF WithinDepth(current_depth, f.maxDepth)
                   THEN EnqueueLinks(rest, LinkOrder(soup, hashSeed), current_url,
                                     current_depth, f.domain, seen)
                   ELSE rest
         IN  IF AlreadyVisited(current_url, f.visited)
             THEN [f EXCEPT !.queue = rest]
             ELSE IF current_url.netloc = <<>> \/ current_url.path \in f.in.bad
             THEN [f EXCEPT !.visited = seen, !.queue = rest,
                            !.fetched = Append(@, Head(f.queue))]
             ELSE [f EXCEPT !.visited = seen, !.queue = q2, !.results = merged,
                            !.fetched = Append(@, Head(f.queue)),
                            !.pc = IF OverCap(merged) THEN "returned" ELSE "crawl"]

\* Mutant: visited is a module-level set, so a call sees the urls every call
\* has visited.
WorkingFrameSharedVisited(fr, r) ==
    [fr[r] EXCEPT !.visited = UNION { fr[k].visited : k \in DOMAIN fr }]

\* The locals a call works on: its own.
WorkingFrame(fr, r) == fr[r]

\* The thread of call r enters _fetch_with_requests.
RunStart(r) ==
    /\ frames[r].pc = "idle"
    /\ frames' = [frames EXCEPT ![r] = FrameStarted(frames[r].in)]
    /\ UNCHANGED <<pipelineVars, unitVars, envVars, storeVars, wrapVars>>

\* The thread of call r is scheduled for one pass of its loop.
RunStep(r) ==
    /\ frames[r].pc = "crawl"
    /\ frames' = [frames EXCEPT ![r] = FrameStep(WorkingFrame(frames, r))]
    /\ UNCHANGED <<pipelineVars, unitVars, envVars, storeVars, wrapVars>>

\* ------------------------------------------- the in-process extraction
\* _collect_menu_candidates_internal(url, depth, ...) as a function of its
\* arguments and of what the site and the engine do (e): the crawl of
\* _fetch_with_requests run to its end, then the rendering attempt, the
\* selection and the sort.
RECURSIVE RunToReturn(_)
RunToReturn(f) == IF f.pc = "returned" THEN f ELSE RunToReturn(FrameStep(f))

\* Mutant: the rendering crawler is never tried.
InternalNeedsRenderNever(request_candidates) == FALSE

\* `if len(request_candidates) < 4:` (system_service.py)
InternalNeedsRender(request_candidates) == Len(request_candidates) < FallbackThreshold

\* _fetch_with_playwright: {} when the import or the navigation fails, the
\* classified DOM when all goes well; any other failure raises.
InternalRenderRaises(e) ==
    e.pw \in {"launch_fail", "context_fail", "page_fail", "close_context_fail",
              "close_browser_fail"}

InternalRender(url, dom, e) ==
    IF e.pw \in {"import_error", "goto_fail"} THEN <<>>
    ELSE extract_candidates_from_soup(e.html, url, dom)

InternalResult(end, source_, dom, menus, fetched) ==
    [end |-> end, source |-> source_, domain |-> dom, menus |-> menus, fetched |-> fetched]

InternalCollect(url, depth, n, e) ==
    IF url.scheme = "" \/ url.netloc = <<>>
    THEN InternalResult("input_error", "none", <<>>, <<>>, <<>>)
    ELSE LET crawl == RunToReturn(FrameStarted([seed |-> url, depth |-> depth, n |-> n,
                                                bad |-> e.bad]))
             request_candidates == crawl.results
             dom == url.netloc
         IN  IF ~InternalNeedsRender(request_candidates)
             THEN InternalResult("done", "requests", dom,
                                 SortByKey(request_candidates, <<>>), crawl.fetched)
             ELSE IF InternalRenderRaises(e)
             THEN InternalResult("raised", "requests", dom, <<>>, crawl.fetched)
             ELSE LET playwright_candidates == InternalRender(url, dom, e)
                  IN  IF playwright_candidates # <<>>
                      THEN InternalResult("done", "playwright", dom,
                                          SortByKey(playwright_candidates, <<>>), crawl.fetched)
                      ELSE InternalResult("done", "requests", dom,
                                          SortByKey(request_candidates, <<>>), crawl.fetched)

ConcInit ==
    /\ seedUrl = SeedPlain /\ depthArg = 0 /\ siteN = 0
    /\ pc = "threads"
    /\ LocalsEmpty
    /\ unitPc = "off"
    /\ UnitIdle
    /\ EnvOpen
    /\ StoreIdle
    /\ WrapIdle
    /\ frames \in [RunIds -> {FrameIdle(in) : in \in ConcInputs}]

ConcNext == \E r \in RunIds : RunStart(r) \/ RunStep(r)

ConcSpec == ConcInit /\ [][ConcNext]_vars

\* --------------------------------------------------- storing the menus
\* collect_system_menus(system_code, created_by=...): look the system up,
\* extract the menus of its domain, then replace its stored menu rows.
MaxMenus == 2
SystemCodes == {"S1", "S2"}
CallIds == {1}

N_None == <<>>                                   \* None or ""
N_Blank == <<32, 32>>                            \* "  "
N_Kim == <<107, 105, 109>>                       \* "kim"
N_KimPadded == <<32, 107, 105, 109, 32>>         \* " kim "
N_Lee == <<108, 101, 101>>                       \* "lee"
N_Root == <<114, 111, 111, 116>>                 \* "root"
N_System == <<115, 121, 115, 116, 101, 109>>     \* "system"

RECURSIVE LStrip(_)
LStrip(str) == IF str # <<>> /\ IsWhitespace(Head(str)) THEN LStrip(Tail(str)) ELSE str

RECURSIVE RStrip(_)
RStrip(str) ==
    IF str # <<>> /\ IsWhitespace(str[Len(str)])
    THEN RStrip(SubSeq(str, 1, Len(str) - 1))
    ELSE str

\* str.strip()
Strip(str) == RStrip(LStrip(str))

\* creator = (created_by or record.get("updated_by") or
\*            record.get("created_by") or "system").strip() or "system"
Creator(created_by, record) ==
    OrElse(Strip(OrElse(created_by,
                        OrElse(record.updated_by, OrElse(record.created_by, N_System)))),
           N_System)

\* A row of inspection_systems, and the absence of one.
SystemRecord(dom, updated_by, created_by) ==
    [exists |-> TRUE, domain |-> dom, updated_by |-> updated_by, created_by |-> created_by]

NoRecord == [exists |-> FALSE, domain |-> <<>>, updated_by |-> <<>>, created_by |-> <<>>]

SystemRecords ==
    { SystemRecord(dom, u, c) :
        dom \in {HostA, <<>>}, u \in {N_None, N_Lee, N_Blank}, c \in {N_None, N_Root} }

\* A row of inspection_system_menus.
MenuRow(system_code, menu_name, path, created_by) ==
    [system_code |-> system_code, menu_name |-> menu_name, path |-> path,
     created_by |-> created_by]

\* The rows a system has from an earlier collection.
PriorRows(system_code) ==
    << MenuRow(system_code, T_Home, 0, N_Root), MenuRow(system_code, T_Board, 1, N_Root) >>

\* What _collect_menu_candidates may return as "menus" for the system's
\* domain: nothing, or the sorted candidates of a root page.
ExtractionResults ==
    {<<>>} \cup { SortByKey(extract_candidates_from_soup(RootPage(k), SeedPlain, HostA), <<>>) :
                    k \in 0..MaxMenus }

\* path_value = parsed_url.path or "/"
PathValue(url) == IF url.path = -1 THEN 0 ELSE url.path

\* The loop over menus_raw: menu_name and path of each entry.
ToMenus(menus_raw) ==
    [i \in 1..Len(menus_raw) |->
        [menu_name |-> menus_raw[i].text, path |-> PathValue(menus_raw[i].url)]]

\* The payloads _replace_system_menus builds.
Payloads(system_code, menus, created_by) ==
    [i \in 1..Len(menus) |->
        MenuRow(system_code, menus[i].menu_name, menus[i].path, created_by)]

Call(system_code, created_by, at, record, menus, creator, before, error) ==
    [system_code |-> system_code, created_by |-> created_by, pc |-> at,
     record |-> record, menus |-> menus, creator |-> creator, before |-> before,
     error |-> error]

nonStoreVars == <<pipelineVars, unitVars, envVars, concVars, wrapVars>>

\* The call raises: nothing more of it runs.
Raised(c, error) == calls' = [calls EXCEPT ![c].pc = "failed", ![c].error = error]

\* _fetch_system_record: the query fails, finds no row, or finds the row.
LookupFail(c) ==
    /\ calls[c].pc = "called"
    /\ Raised(c, "lookup")
    /\ UNCHANGED <<nonStoreVars, systems, stored>>

LookupNotFound(c) ==
    /\ calls[c].pc = "called"
    /\ ~systems[calls[c].system_code].exists
    /\ Raised(c, "not_found")
    /\ UNCHANGED <<nonStoreVars, systems, stored>>

\* `if not domain: raise ValueError`
LookupNoDomain(c) ==
    /\ calls[c].pc = "called"
    /\ systems[calls[c].system_code].exists
    /\ systems[calls[c].system_code].domain = <<>>
    /\ Raised(c, "no_domain")
    /\ UNCHANGED <<nonStoreVars, systems, stored>>

LookupOk(c) ==
    /\ calls[c].pc = "called"
    /\ systems[calls[c].system_code].exists
    /\ systems[calls[c].system_code].domain # <<>>
    /\ calls' = [calls EXCEPT ![c].pc = "extract",
                               ![c].record = systems[calls[c].system_code]]
    /\ UNCHANGED <<nonStoreVars, systems, stored>>

\* Mutant: the old rows are removed before the extraction is attempted.
ExtractRaiseAfterDelete(c) ==
    /\ calls[c].pc = "extract"
    /\ Raised(c, "extract")
    /\ stored' = [stored EXCEPT ![calls[c].system_code] = <<>>]
    /\ UNCHANGED <<nonStoreVars, systems>>

\* _collect_menu_candidates raises (the rendering crawler's exception, a
\* missing dependency).
ExtractRaise(c) ==
    /\ calls[c].pc = "extract"
    /\ Raised(c, "extract")
    /\ UNCHANGED <<nonStoreVars, systems, stored>>

\* _collect_menu_candidates returns; menus and creator are computed and
\* _replace_system_menus is entered.
ExtractOk(c) ==
    /\ calls[c].pc = "extract"
    /\ \E menus_raw \in ExtractionResults :
          calls' = [calls EXCEPT ![c].pc = "delete",
                                 ![c].menus = ToMenus(menus_raw),
                                 ![c].creator = Creator(calls[c].created_by, calls[c].record)]
    /\ UNCHANGED <<nonStoreVars, systems, stored>>

\* Mutant: the delete request removes nothing.
DeleteOkKeepsRows(c) ==
    /\ calls[c].pc = "delete"
    /\ stored' = stored
    /\ calls' = [calls EXCEPT ![c].pc = IF calls[c].menus = <<>> THEN "returned" ELSE "insert"]
    /\ UNCHANGED <<nonStoreVars, systems>>

\* Mutant: the delete request lacks the eq("system_code", ...) filter.
DeleteOkAllSystems(c) ==
    /\ calls[c].pc = "delete"
    /\ stored' = [code \in DOMAIN stored |-> <<>>]
    /\ calls' = [calls EXCEPT ![c].pc = IF calls[c].menus = <<>> THEN "returned" ELSE "insert"]
    /\ UNCHANGED <<nonStoreVars, systems>>

\* delete().eq("system_code", system_code) succeeds; `if not menus: return`.
DeleteOk(c) ==
    /\ calls[c].pc = "delete"
    /\ stored' = [stored EXCEPT ![calls[c].system_code] = <<>>]
    /\ calls' = [calls EXCEPT ![c].pc = IF calls[c].menus = <<>> THEN "returned" ELSE "insert"]
    /\ UNCHANGED <<nonStoreVars, systems>>

\* The delete request fails: no row is removed.
DeleteFail(c) ==
    /\ calls[c].pc = "delete"
    /\ Raised(c, "delete")
    /\ UNCHANGED <<nonStoreVars, systems, stored>>

\* insert(payloads) succeeds: one statement adds all the rows.
InsertOk(c) ==
    /\ calls[c].pc = "insert"
    /\ stored' = [stored EXCEPT ![calls[c].system_code] =
                      @ \o Payloads(calls[c].system_code, calls[c].menus, calls[c].creator)]
    /\ calls' = [calls EXCEPT ![c].pc = "returned"]
    /\ UNCHANGED <<nonStoreVars, systems>>

\* The insert request fails: no row is added; the delete is not undone.
InsertFail(c) ==
    /\ calls[c].pc = "insert"
    /\ Raised(c, "insert")
    /\ UNCHANGED <<nonStoreVars, systems, stored>>

StoreInit ==
    /\ seedUrl = SeedPlain /\ depthArg = 0 /\ siteN = 0
    /\ pc = "service"
    /\ LocalsEmpty
    /\ unitPc = "off"
    /\ UnitIdle
    /\ EnvOpen
    /\ ConcIdle
    /\ WrapIdle
    /\ \E rec \in SystemRecords \cup {NoRecord} :
          systems = [code \in SystemCodes |->
                        IF code = "S1" THEN rec ELSE SystemRecord(HostA, N_None, N_None)]
    /\ \E rows \in {<<>>, PriorRows("S1")} :
          stored = [code \in SystemCodes |-> IF code = "S1" THEN rows ELSE PriorRows(code)]
    /\ \E code \in SystemCodes, who \in {N_None, N_Blank, N_Kim, N_KimPadded} :
          calls = [c \in CallIds |->
                      Call(code, who, "called", NoRecord, <<>>, <<>>, stored[code], "none")]

StoreNext ==
    \E c \in CallIds :
        \/ LookupFail(c)
        \/ LookupNotFound(c)
        \/ LookupNoDomain(c)
        \/ LookupOk(c)
        \/ ExtractRaise(c)
        \/ ExtractOk(c)
        \/ DeleteOk(c)
        \/ DeleteFail(c)
        \/ InsertOk(c)
        \/ InsertFail(c)

StoreSpec == StoreInit /\ [][StoreNext]_vars

\* ------------------------------------------------ service calls side by side
\* Each request is served by its own coroutine and every supabase request
\* runs in a worker thread (asyncio.to_thread), so the requests of two calls
\* interleave at every await. The tables carry no constraint known to the
\* code: a request may fail at any time, and may succeed whenever the code
\* lets it be sent.

\* delete_system: the menu rows of the system are deleted.
DsDeleteMenusOk(c) ==
    /\ calls[c].pc = "ds_menus"
    /\ stored' = [stored EXCEPT ![calls[c].system_code] = <<>>]
    /\ calls' = [calls EXCEPT ![c].pc = "ds_system"]
    /\ UNCHANGED <<nonStoreVars, systems>>

DsDeleteMenusFail(c) ==
    /\ calls[c].pc = "ds_menus"
    /\ Raised(c, "delete")
    /\ UNCHANGED <<nonStoreVars, systems, stored>>

\* delete_system: the row of the system is deleted and returned in data.
DsDeleteSystemOk(c) ==
    /\ calls[c].pc = "ds_system"
    /\ systems[calls[c].system_code].exists
    /\ systems' = [systems EXCEPT ![calls[c].system_code] = NoRecord]
    /\ calls' = [calls EXCEPT ![c].pc = "ds_returned"]
    /\ UNCHANGED <<nonStoreVars, stored>>

DsDeleteSystemFail(c) ==
    /\ calls[c].pc = "ds_system"
    /\ Raised(c, "delete_system")
    /\ UNCHANGED <<nonStoreVars, systems, stored>>

\* `if not data: raise ValueError`: there was no such system.
DsNotFound(c) ==
    /\ calls[c].pc = "ds_system"
    /\ ~systems[calls[c].system_code].exists
    /\ Raised(c, "not_found")
    /\ UNCHANGED <<nonStoreVars, systems, stored>>

CallIds2 == {1, 2}

\* Call 1 collects the menus of S1 for "kim"; call 2 collects for S1 or S2
\* without a caller value, or deletes S1 or S2. S2 has no domain registered,
\* or is not registered at all.
Store2Init ==
    /\ seedUrl = SeedPlain /\ depthArg = 0 /\ siteN = 0
    /\ pc = "service"
    /\ LocalsEmpty
    /\ unitPc = "off"
    /\ UnitIdle
    /\ EnvOpen
    /\ ConcIdle
    /\ WrapIdle
    /\ \E rec \in {NoRecord, SystemRecord(<<>>, N_None, N_Root)} :
          systems = [code \in SystemCodes |->
                        IF code = "S1" THEN SystemRecord(HostA, N_Lee, N_Root) ELSE rec]
    /\ \E rows \in {<<>>, PriorRows("S1")} :
          stored = [code \in SystemCodes |-> IF code = "S1" THEN rows ELSE PriorRows(code)]
    /\ \E code \in SystemCodes, at \in {"called", "ds_menus"} :
          calls = [c \in CallIds2 |->
                      IF c = 1
                      THEN Call("S1", N_Kim, "called", NoRecord, <<>>, <<>>, stored["S1"], "none")
                      ELSE Call(code, N_None, at, NoRecord, <<>>, <<>>, stored[code], "none")]

Store2Next ==
    \E c \in CallIds2 :
        \/ LookupFail(c)
        \/ LookupNotFound(c)
        \/ LookupNoDomain(c)
        \/ LookupOk(c)
        \/ ExtractRaise(c)
        \/ ExtractOk(c)
        \/ DeleteOk(c)
        \/ DeleteFail(c)
        \/ InsertOk(c)
        \/ InsertFail(c)
        \/ DsDeleteMenusOk(c)
        \/ DsDeleteMenusFail(c)
        \/ DsDeleteSystemOk(c)
        \/ DsDeleteSystemFail(c)
        \/ DsNotFound(c)

Store2Spec == Store2Init /\ [][Store2Next]_vars

\* ------------------------------------------- the functions on their own
\* normalize_url and extract_candidates_from_soup are pure functions; here
\* they are called directly, with arguments drawn from the sets below.
HostLookalike == <<120>> \o HostA       \* xa.com

\* base: "https://a.com/1", "https://A.com/#1", "http://b.com"
Bases == {Url("https", HostA, 1, 0), Url("https", HostACaps, 0, 1), Url("http", HostB, -1, 0)}

\* link: "", "#", "#1", "/1", "//b.com/1#1", "http:/1", "https://xa.com", "mailto:...", ...
Links ==
    {Url(sch, host, path, frag) :
        sch \in {"", "http", "https", "ftp", "mailto"},
        host \in {<<>>, HostA, HostACaps, HostB, HostLookalike},
        path \in -1..MaxPath,
        frag \in -1..MaxFrag}

Domains == {HostA, HostB}

\* The anchors of the documents classified: href "/1" or "/1#2"; text "Home",
\* "Dup", blank or "Contact Us"; in the footer, in the navigation bar's list
\* or in the sidebar; and one link to another page, "/2".
UnitAnchors ==
    {Anchor(href, text, anc) :
        href \in {Rel(1), RelFrag(1, 2)},
        text \in {T_Home, T_Dup, T_Blank, T_Contact},
        anc \in {<<E_Foot>>, <<E_Ul, E_Nav>>, <<E_Side>>}}
      \cup {Anchor(Rel(2), T_Home, <<E_Side>>)}

UnitPages == UNION {[1..k -> UnitAnchors] : k \in 0..MaxAnchors}

\* The page the documents are served from: "https://a.com/".
UnitBase == Url("https", HostA, 0, 0)

UnitInit ==
    /\ seedUrl = SeedPlain /\ depthArg = 0 /\ siteN = 0
    /\ pc = "unit"
    /\ unitPc = "idle"
    /\ UnitIdle
    /\ EnvOpen
    /\ ConcIdle
    /\ WrapIdle
    /\ StoreIdle
    /\ domain = <<>>
    /\ maxDepth = 0
    /\ visited = {}
    /\ queue = <<>>
    /\ results = <<>>
    /\ fetchLog = <<>>
    /\ last = "none"
    /\ lastResp = [status |-> 0, ctype |-> <<>>]
    /\ failMark = 0
    /\ requestCandidates = <<>>
    /\ pwCalls = 0
    /\ pwNav = <<>>
    /\ driver = "none"
    /\ browser = "none"
    /\ context = "none"
    /\ pwCandidates = <<>>
    /\ pwExit = "none"
    /\ source = "none"
    /\ candidates = <<>>
    /\ menuList = <<>>

\* normalized = normalize_url(base, link, domain)
NormalizeCall ==
    /\ unitPc = "idle"
    /\ \E base \in Bases, link \in Links, dom \in Domains :
         /\ nBase' = base
         /\ nLink' = link
         /\ nDomain' = dom
         /\ nOut' = normalize_url(base, link, dom)
    /\ unitPc' = "normalized"
    /\ UNCHANGED <<pipelineVars, envVars, concVars, storeVars, wrapVars, nLink2, nOut2, cSoup, cOut>>

\* The same call for a link that differs from the first in its fragment only.
NormalizeTwin ==
    /\ unitPc = "normalized"
    /\ \E frag \in (-1..MaxFrag) \ {nLink.frag} :
         /\ nLink2' = [nLink EXCEPT !.frag = frag]
         /\ nOut2' = normalize_url(nBase, nLink2', nDomain)
    /\ unitPc' = "compared"
    /\ UNCHANGED <<pipelineVars, envVars, concVars, storeVars, wrapVars, nBase, nLink, nDomain, nOut, cSoup, cOut>>

\* candidates = extract_candidates_from_soup(soup, base_url, domain)
ClassifyCall ==
    /\ unitPc = "idle"
    /\ \E soup \in UnitPages :
         /\ cSoup' = soup
         /\ cOut' = extract_candidates_from_soup(soup, UnitBase, HostA)
    /\ unitPc' = "classified"
    /\ UNCHANGED <<pipelineVars, envVars, concVars, storeVars, wrapVars, nBase, nLink, nDomain, nOut, nLink2, nOut2>>

\* The ancestor chains of the anchors handed to derive_path: up to MaxChain
\* elements among <nav aria-label="Main">, <ul class="gnb">,
\* <div class="sidebar">, <div class="footer"> and <header id="Top">.
UnitChains ==
    UNION {[1..k -> {E_Nav, E_Ul, E_Side, E_Foot, E_Head}] : k \in 0..MaxChain}

\* path = derive_path(link)
DerivePathCall ==
    /\ unitPc = "idle"
    /\ \E anc \in UnitChains :
         /\ cSoup' = <<Anchor(Rel(1), T_Home, anc)>>
         /\ cOut' = derive_path(Anchor(Rel(1), T_Home, anc))
    /\ unitPc' = "derived"
    /\ UNCHANGED <<pipelineVars, envVars, concVars, storeVars, wrapVars, nBase, nLink, nDomain, nOut, nLink2, nOut2>>

UnitNext ==
    \/ NormalizeCall
    \/ NormalizeTwin
    \/ ClassifyCall
    \/ DerivePathCall

UnitSpec == UnitInit /\ [][UnitNext]_vars

\* ----------------------------------------------------------------- claims
Range(s) == {s[i] : i \in 1..Len(s)}

LastOf(s) == s[Len(s)]

\* The static crawler is still to run or running / has returned.
CrawlReturned == pc \notin {"start", "input_error", "crawl"}

\* C1: in one run of the static crawler no url is handed to session.get
\* more than once, whatever the site and the fetch outcomes.
C1_NoUrlFetchedTwice ==
    \A i, j \in 1..Len(fetchLog) : i # j => fetchLog[i].url # fetchLog[j].url

\* C1 witness: a url that was already fetched came up again in the queue and
\* was skipped.
C1_Witness == last = "skip" /\ Len(fetchLog) >= 2

\* C2: the static crawler terminates: once the loop is entered, it is
\* eventually left (queue empty, or break on the cap).
C2_CrawlTerminates == (pc = "crawl") ~> (pc = "crawled")

\* C2 witness: the crawler has returned after fetching several pages, some of
\* which failed, at the largest depth tried.
C2_Witness ==
    /\ pc = "crawled"
    /\ maxDepth = MaxDepthArg
    /\ Len(fetchLog) >= 3
    /\ last \in {"error", "status", "nonhtml"}

\* C3: every queued task has depth <= max_depth, no page deeper than
\* max_depth is fetched, and with max_depth = 0 only the seed is ever queued
\* or fetched.
C3_DepthBound ==
    /\ \A i \in 1..Len(queue) : queue[i].depth <= maxDepth
    /\ \A i \in 1..Len(fetchLog) : fetchLog[i].depth <= maxDepth
    /\ (pc # "start" /\ maxDepth = 0) =>
           /\ \A i \in 1..Len(queue) : queue[i] = Task(seedUrl, 0)
           /\ \A i \in 1..Len(fetchLog) : fetchLog[i] = Task(seedUrl, 0)

\* C3 witness: a page at depth max_depth >= 1 that carries links was fetched
\* and parsed, and none of its links was queued: what is left in the queue
\* was queued by the pages before it.
C3_Witness ==
    /\ pc = "crawl"
    /\ maxDepth >= 1
    /\ last = "ok"
    /\ LastOf(fetchLog).depth = maxDepth
    /\ Page(siteN, LastOf(fetchLog).url.path) # <<>>
    /\ queue # <<>>
    /\ \A i \in 1..Len(queue) : queue[i].depth = maxDepth

\* C4 as claimed: the mapping the static crawler returns never holds more
\* than 50 entries.
C4_ResultCappedAt50 == CrawlReturned => Len(requestCandidates) <= 50

\* C4 as amended: the loop only runs while the map holds at most 50 entries;
\* once a merged page lifts it above 50 the crawler returns at once, and the
\* map then exceeds 50 by no more than the candidates of that last page.
C4_CapHaltsCrawl ==
    /\ pc = "crawl" => Len(results) <= 50
    /\ Len(results) > 50 =>
           /\ CrawlReturned
           /\ requestCandidates = results
           /\ last = "ok"
           /\ Len(results) <= 50 + Len(extract_candidates_from_soup(
                                       Page(siteN, LastOf(fetchLog).url.path),
                                       LastOf(fetchLog).url, domain))

\* C4 witness: one page with 51 menu links gave a returned map of 51
\* entries, and the crawl stopped with tasks still queued.
C4_Witness ==
    /\ pc = "crawled"
    /\ Len(fetchLog) = 1
    /\ Len(requestCandidates) = 51
    /\ queue # <<>>

\* C5: the rendering crawler is invoked if and only if the static crawler
\* returned fewer than 4 candidates.
C5_FallbackIffBelowFour ==
    (CrawlReturned /\ pc # "crawled") => (pwCalls > 0 <=> Len(requestCandidates) < 4)

\* C5 witness: a static result of exactly 3 candidates, and the rendering
\* crawler was called.
C5_Witness == pc = "done" /\ Len(requestCandidates) = 3 /\ pwCalls = 1

\* C6: when the rendering crawler was invoked and returned at least one
\* candidate, the output holds exactly the rendered candidates and the source
\* is the rendered one.
C6_RenderedSupersedes ==
    (pc = "done" /\ pwCalls > 0 /\ pwCandidates # <<>>) =>
        /\ source = "playwright"
        /\ Range(menuList) = Range(pwCandidates)
        /\ Len(menuList) = Len(pwCandidates)

\* C6 witness: the rendered set was output although the static crawl had
\* found a candidate the rendered page does not have.
C6_Witness ==
    /\ pc = "done"
    /\ pwCandidates # <<>>
    /\ \E i \in 1..Len(requestCandidates) : ~HasKey(pwCandidates, requestCandidates[i].url)

\* C7: when the rendering crawler was invoked and returned no candidate, the
\* output holds exactly the static candidates and the source is the static one.
C7_StaticStands ==
    (pc = "done" /\ pwCalls > 0 /\ pwExit = "returned" /\ pwCandidates = <<>>) =>
        /\ source = "requests"
        /\ Range(menuList) = Range(requestCandidates)
        /\ Len(menuList) = Len(requestCandidates)

\* C7 witness: the import of the engine failed, the static candidates were
\* output.
C7_Witness ==
    /\ pc = "done"
    /\ pwCalls > 0
    /\ driver = "none"
    /\ requestCandidates # <<>>
    /\ menuList # <<>>

\* C8: the rendering crawler never raises; every failure makes it return an
\* empty mapping.
C8_RenderingNeverRaises == pwExit # "raised"

\* C9: whenever the rendering crawler has ended after launching a browser,
\* the browser and (if created) the context have been closed.
C9_TeardownOnEveryExit ==
    (pwExit \in {"returned", "raised"} /\ browser # "none") =>
        /\ browser = "closed"
        /\ context # "none" => context = "closed"

\* A loop iteration whose fetch failed at the transport level, returned a
\* status >= 400 or a content type without "html".
FailedFetchStep ==
    /\ fetchLog' # fetchLog
    /\ \/ last' = "error"
       \/ lastResp'.status >= 400
       \/ ~Contains(LowerStr(lastResp'.ctype), <<104, 116, 109, 108>>)

\* A failed page adds no candidate and no link.
FailedPageAddsNothing ==
    FailedFetchStep => (results' = results /\ queue' = Tail(queue))

\* C10 as claimed: a failed page adds no candidate and no link, and every
\* task queued at that moment is dequeued before the crawler returns.
C10_FailedPageSkippedRestProcessed ==
    [][ /\ FailedPageAddsNothing
        /\ (pc = "crawl" /\ pc' = "crawled") => failMark' = 0 ]_vars

\* C10 as amended: a failed page adds no candidate and no link and the loop
\* goes on to the next iteration; tasks queued at that moment stay undequeued
\* only when a later page lifts the result map above the cap.
C10_FailedPageSkippedLoopGoesOn ==
    [][ /\ FailedPageAddsNothing
        /\ FailedFetchStep => pc' = "crawl"
        /\ (pc = "crawl" /\ pc' = "crawled" /\ failMark' > 0) =>
               (last' = "ok" /\ Len(results') > 50) ]_vars

\* C10 witness: after a failed fetch a later page was fetched and parsed
\* while tasks queued at the failure were still waiting.
C10_Witness == pc = "crawl" /\ last = "ok" /\ failMark > 0 /\ results # <<>>

\* ---------------------------------------------------------------------------
\* A url lacks a scheme or an authority.
LacksSchemeOrAuthority(u) == u.scheme = "" \/ u.netloc = <<>>

\* Nothing was fetched, no browser was driven and no result was built.
NothingDone ==
    /\ fetchLog = <<>>
    /\ visited = {}
    /\ pwCalls = 0
    /\ pwNav = <<>>
    /\ driver = "none"
    /\ source = "none"
    /\ menuList = <<>>

\* C11: a seed url that lacks a scheme or an authority ends the extraction
\* with the input error before any page fetch or browser navigation, and no
\* result is produced.
C11_MalformedSeedFailsFirst ==
    /\ LacksSchemeOrAuthority(seedUrl) => (pc \in {"start", "input_error"} /\ NothingDone)
    /\ pc = "input_error" => (LacksSchemeOrAuthority(seedUrl) /\ NothingDone)

\* C11 witness: the seed "https:/1" (a scheme, no authority) was refused.
C11_Witness == pc = "input_error" /\ seedUrl.scheme = "https" /\ seedUrl.netloc = <<>>

\* C12: with a well-formed seed the orchestrator always returns a result; the
\* input error on a malformed seed is the only failure that reaches the caller.
C12_OnlySeedErrorReachesCaller ==
    pc \in {"input_error", "raised"} =>
        (pc = "input_error" /\ LacksSchemeOrAuthority(seedUrl))

\* The candidates the classifier produces for the page just fetched.
ClassifiedFor(task) ==
    extract_candidates_from_soup(Page(siteN, task.url.path), task.url, domain)

\* C13: the crawler's result map holds one entry per url; a step that fetched
\* and parsed a page leaves every stored entry as it was and appends, in the
\* page's order, the page's candidates whose url was not stored yet; any other
\* step leaves the map alone; the map returned is that map.
C13_FirstPageWins ==
    [][ LET IsNew(c) == \A i \in 1..Len(results) : results[i].url # c.url
            parsed == Len(fetchLog') = Len(fetchLog) + 1 /\ last' = "ok"
        IN  /\ \A i, j \in 1..Len(results') : i # j => results'[i].url # results'[j].url
            /\ IF parsed
               THEN results' = results \o SelectSeq(ClassifiedFor(Head(queue)), IsNew)
               ELSE results' = results
            /\ requestCandidates' # requestCandidates => requestCandidates' = results'
      ]_vars

\* C13 witness: the page just parsed produced a url that an earlier page had
\* produced with another text, and the stored entry still has the earlier text.
C13_Witness ==
    /\ pc = "crawl"
    /\ last = "ok"
    /\ Len(fetchLog) >= 3
    /\ LET page_candidates == ClassifiedFor(LastOf(fetchLog))
       IN  \E i \in 1..Len(page_candidates), j \in 1..Len(results) :
               /\ page_candidates[i].url = results[j].url
               /\ page_candidates[i].text # results[j].text

\* (lower-cased text, url) of a <= that of b.
SortKeyLeq(a, b) ==
    LET ta == LowerStr(a.text)
        tb == LowerStr(b.text)
    IN  \/ StrLess(ta, tb)
        \/ ta = tb /\ (a.url = b.url \/ StrLess(UrlStr(a.url), UrlStr(b.url)))

\* C16: the menu list returned is a permutation of the selected candidates
\* in ascending order of (lower-cased text, url).
C16_SortedPermutation ==
    pc = "done" =>
        /\ Len(menuList) = Len(candidates)
        /\ Range(menuList) = Range(candidates)
        /\ \A i \in 1..(Len(menuList) - 1) : SortKeyLeq(menuList[i], menuList[i + 1])

\* C16 witness: the sort changed the order, put a lower-case text before an
\* upper-case one of smaller code, and ordered two entries of equal lower-cased
\* text by url.
C16_Witness ==
    /\ pc = "done"
    /\ menuList # candidates
    /\ \E i \in 1..(Len(menuList) - 1) :
           /\ LowerStr(menuList[i].text) = LowerStr(menuList[i + 1].text)
           /\ menuList[i].url # menuList[i + 1].url
    /\ \E i \in 1..(Len(menuList) - 1) : StrLess(menuList[i + 1].text, menuList[i].text)

\* http or https, no fragment, the authority of the crawl root.
SameSiteUrl(u) ==
    /\ u.scheme \in {"http", "https"}
    /\ u.frag = 0
    /\ LowerStr(u.netloc) = LowerStr(domain)

\* C17: every candidate url of a result, and every queued url other than the
\* seed, is http(s), has no fragment and has the crawl root's authority.
C17_UrlsSameSite ==
    /\ \A i \in 1..Len(results) : SameSiteUrl(results[i].url)
    /\ \A i \in 1..Len(pwCandidates) : SameSiteUrl(pwCandidates[i].url)
    /\ \A i \in 1..Len(menuList) : SameSiteUrl(menuList[i].url)
    /\ \A i \in 1..Len(queue) : queue[i].depth > 0 => SameSiteUrl(queue[i].url)

\* The lower-cased text contains a denylist entry.
DenylistHit(text) ==
    \E k \in 1..Len(FORBIDDEN_TEXT) : Contains(LowerStr(text), FORBIDDEN_TEXT[k])

\* C20: no candidate of any result has a text whose lower-cased form contains
\* a denylist entry.
C20_NoForbiddenText ==
    /\ \A i \in 1..Len(results) : ~DenylistHit(results[i].text)
    /\ \A i \in 1..Len(pwCandidates) : ~DenylistHit(pwCandidates[i].text)
    /\ \A i \in 1..Len(menuList) : ~DenylistHit(menuList[i].text)

\* C20 witness: pages with a "Contact Us" link in the navigation bar and a
\* "CONTACT  US" link were parsed, other links of those pages were kept, and
\* the result was returned.
C20_Witness ==
    /\ pc = "done"
    /\ \E i \in 1..Len(fetchLog) :
           /\ fetchLog[i].url.path = 1
           /\ \E k \in 1..Len(Page(siteN, 1)) : Page(siteN, 1)[k].text = T_ContactCaps
    /\ \E k \in 1..Len(RootPage(siteN)) :
           /\ RootPage(siteN)[k].text = T_Contact
           /\ HasAncestor(RootPage(siteN)[k], "nav")
    /\ \E i \in 1..Len(menuList) : menuList[i].text = T_Extra
    /\ \E i \in 1..Len(menuList) : menuList[i].text = T_Menu(1)

\* ---------------------------------------------------------------------------
\* The url an anchor of the classified document resolves to.
Resolves(a) == normalize_url(UnitBase, a.href, HostA)

\* The anchor's text is non-empty after cleaning and not on the denylist.
Eligible(a) == clean_text(a.text) # <<>> /\ ~DenylistHit(clean_text(a.text))

\* The candidate an anchor stands for.
CandOf(a) == [text |-> clean_text(a.text), url |-> Resolves(a), path |-> derive_path(a)]

\* The entries the classifier returned for url u.
EntriesFor(u) == LET Has(c) == c.url = u IN SelectSeq(cOut, Has)

\* C14 as claimed: two anchors of one page that resolve to the same url yield
\* exactly one candidate, with the text and path of the anchor the classifier
\* meets first.
C14_OneCandidateFromFirstAnchor ==
    unitPc = "classified" =>
        \A i, j \in 1..Len(cSoup) :
            (i < j /\ Resolves(cSoup[i]) # NoUrl /\ Resolves(cSoup[i]) = Resolves(cSoup[j])) =>
                LET u == Resolves(cSoup[i])
                    To(a) == Resolves(a) = u
                    met == SelectSeq(SelectionOrder(cSoup), To)
                IN  EntriesFor(u) = <<CandOf(met[1])>>

\* C14 as amended: such anchors yield at most one candidate: that of the first
\* anchor, in the order the classifier meets them, whose text is non-empty and
\* not forbidden; none when there is no such anchor.
C14_OneCandidateFromFirstEligible ==
    unitPc = "classified" =>
        \A i, j \in 1..Len(cSoup) :
            (i < j /\ Resolves(cSoup[i]) # NoUrl /\ Resolves(cSoup[i]) = Resolves(cSoup[j])) =>
                LET u == Resolves(cSoup[i])
                    To(a) == Resolves(a) = u /\ Eligible(a)
                    met == SelectSeq(SelectionOrder(cSoup), To)
                IN  IF met = <<>> THEN EntriesFor(u) = <<>>
                    ELSE EntriesFor(u) = <<CandOf(met[1])>>

\* C14 witness: "/1" and "/1#2" with two different texts in the same
\* container gave one candidate, with the first anchor's text.
C14_Witness ==
    /\ unitPc = "classified"
    /\ Len(cSoup) = 2
    /\ cSoup[1].href # cSoup[2].href
    /\ cSoup[1].anc = cSoup[2].anc
    /\ Eligible(cSoup[1]) /\ Eligible(cSoup[2])
    /\ cSoup[1].text # cSoup[2].text
    /\ cOut = <<CandOf(cSoup[1])>>

\* The first tier that reaches an anchor: 1 nav/header/role=navigation
\* containers, 2 containers with a menu keyword class, 3 all anchors.
Tier(a) ==
    IF HasAncestor(a, "nav") \/ HasAncestor(a, "header") \/ HasAncestor(a, "[role='navigation']")
    THEN 1
    ELSE IF HasAncestor(a, "hints") THEN 2 ELSE 3

\* C15 as claimed: the candidate kept for a url is that of an anchor of the
\* earliest tier among the anchors that link to the url.
C15_EarliestTierKept ==
    unitPc = "classified" =>
        \A k \in 1..Len(cOut) :
            LET linking == {i \in 1..Len(cSoup) : Resolves(cSoup[i]) = cOut[k].url}
            IN  \E i \in linking :
                    /\ cOut[k] = CandOf(cSoup[i])
                    /\ \A j \in linking : Tier(cSoup[i]) <= Tier(cSoup[j])

\* C15 as amended: the candidate kept for a url is that of an anchor of the
\* earliest tier among the anchors that link to the url and whose text is
\* non-empty and not forbidden.
C15_EarliestEligibleTierKept ==
    unitPc = "classified" =>
        \A k \in 1..Len(cOut) :
            LET linking == {i \in 1..Len(cSoup) :
                               Resolves(cSoup[i]) = cOut[k].url /\ Eligible(cSoup[i])}
            IN  \E i \in linking :
                    /\ cOut[k] = CandOf(cSoup[i])
                    /\ \A j \in linking : Tier(cSoup[i]) <= Tier(cSoup[j])

\* C15 witness: a footer link comes first in the document, a navigation-bar
\* link to the same url second; the candidate kept is the second one's.
C15_Witness ==
    /\ unitPc = "classified"
    /\ Len(cSoup) = 2
    /\ Tier(cSoup[1]) = 3 /\ Tier(cSoup[2]) = 1
    /\ Eligible(cSoup[1]) /\ Eligible(cSoup[2])
    /\ cSoup[1].text # cSoup[2].text
    /\ Resolves(cSoup[1]) = Resolves(cSoup[2])
    /\ cOut = <<CandOf(cSoup[2])>>

\* What the link resolves to against the base (the base itself for "").
Resolved(base, link) == IF link = NoUrl THEN base ELSE urljoin(base, link)

\* C18: normalize_url returns nothing for every link whose resolved authority
\* is present and differs, case-insensitively, from the allowed domain.
C18_CrossOriginRejected ==
    unitPc \in {"normalized", "compared"} =>
        LET authority == Resolved(nBase, nLink).netloc
        IN  (authority # <<>> /\ LowerStr(authority) # LowerStr(nDomain)) => nOut = NoUrl

\* C18 witness: an http(s) link to another host, with a path and a fragment,
\* was refused.
C18_Witness ==
    /\ unitPc = "normalized"
    /\ nLink.scheme \in {"http", "https"}
    /\ nLink.netloc = HostLookalike
    /\ nDomain = HostA
    /\ nLink.path = 1
    /\ nLink.frag = 1
    /\ nOut = NoUrl

\* C19 as claimed: two links that differ in their fragment only get the same
\* result.
C19_FragmentInsensitive == unitPc = "compared" => nOut = nOut2

\* C19 as amended: two non-empty links that differ in their fragment only get
\* the same result.
C19_FragmentInsensitiveNonEmpty ==
    (unitPc = "compared" /\ nLink # NoUrl /\ nLink2 # NoUrl) => nOut = nOut2

\* C19 witness: "/1" and "/1#1" both gave the same fragment-free url.
C19_Witness ==
    /\ unitPc = "compared"
    /\ nLink = Rel(1)
    /\ nLink2 = RelFrag(1, 1)
    /\ nOut # NoUrl
    /\ nOut = nOut2
    /\ nOut.frag = 0

\* ------------------------------------------------- C24: visited is permanent
\* The tasks one loop iteration appended: what follows the old tail.
Appended(before, after) ==
    { after[i] : i \in { j \in 1..Len(after) : j >= Len(before) } }

\* C24: no task is appended for a url that is in the visited set, the visited
\* set only grows, and a url that is in it is never fetched again.
C24_VisitedPermanent ==
    [][ /\ visited \subseteq visited'
        /\ pc = "crawl" => \A t \in Appended(queue, queue') : t.url \notin visited'
        /\ fetchLog' # fetchLog =>
              /\ LastOf(fetchLog').url \notin visited
              /\ LastOf(fetchLog').url \in visited' ]_vars

\* C24 witness: a page below the depth bound was parsed that links to itself
\* (href="#"), new tasks were appended, and none of them is for that page.
C24_Witness ==
    /\ pc = "crawl"
    /\ last = "ok"
    /\ Len(fetchLog) >= 2
    /\ LastOf(fetchLog).depth < maxDepth
    /\ LET cur == LastOf(fetchLog).url
           soup == Page(siteN, cur.path)
       IN  /\ \E i \in 1..Len(soup) : normalize_url(cur, soup[i].href, domain) = cur
           /\ cur \in visited
           /\ \E i \in 1..Len(queue) : queue[i].depth = LastOf(fetchLog).depth + 1
           /\ \A i \in 1..Len(queue) :
                queue[i].depth = LastOf(fetchLog).depth + 1 => queue[i].url # cur

\* ------------------------------------------- C25: rendering is single-page
\* The steps of one fetch_with_playwright invocation.
PwSteps ==
    {"pw_import", "pw_launch", "pw_context", "pw_page", "pw_goto", "pw_finally",
     "pw_close_browser"}

\* C25: one invocation of the rendering crawler navigates once, to the seed
\* url, and neither navigates to nor fetches a link of the rendered page.
C25_RenderingSinglePage ==
    [][ /\ pwNav' # pwNav => (pc = "pw_goto" /\ pwNav = <<>> /\ pwNav' = <<seedUrl>>)
        /\ (pc = "pw_goto" /\ pc' # "pw_goto") => pwNav' # pwNav
        /\ pc \in PwSteps => (fetchLog' = fetchLog /\ visited' = visited) ]_vars

\* C25 witness: the rendering crawler returned candidates of a page that
\* links to other pages of the site, having navigated to the seed only.
C25_Witness ==
    /\ pc = "pw_returned"
    /\ Len(pwCandidates) >= 2
    /\ \E i \in 1..Len(pwCandidates) : pwCandidates[i].url # seedUrl
    /\ pwNav = <<seedUrl>>

C28_HardStop ==
    [][ /\ (pc = "crawl" /\ results' # results /\ Len(results') > 50) => pc' = "crawled"
        /\ pc # "crawl" => fetchLog' = fetchLog
        /\ (pc = "crawl" /\ pc' # "crawl") =>
              /\ pc' = "crawled"
              /\ (Len(results') > 50 \/ queue = <<>>)
        /\ (pc = "crawl" /\ queue # <<>> /\ Len(results') <= 50) => pc' = "crawl" ]_vars

\* C28 witness: the loop ended on the merge of a page other than the first
\* with more than 50 entries and tasks left in the queue.
C28_Witness ==
    /\ pc = "crawled"
    /\ Len(requestCandidates) > 50
    /\ queue # <<>>
    /\ Len(fetchLog) >= 2

\* --------------------------------------------------- C29: orchestration order
\* C29: the rendering crawler is called at most once, only after the static
\* crawl has returned, and the static crawl does nothing from then on.
C29_StaticThenRenderOnce ==
    [][ /\ pwCalls' # pwCalls => (pc = "crawled" /\ pwCalls = 0 /\ pwCalls' = 1)
        /\ pc \in PwSteps => pwCalls = 1
        /\ pc \notin {"start", "crawl"} =>
              /\ pc' \notin {"start", "crawl"}
              /\ UNCHANGED <<visited, queue, results, fetchLog, requestCandidates>> ]_vars

\* C29 witness: a run that crawled several pages, then rendered, and ended.
C29_Witness ==
    /\ pc = "done"
    /\ pwCalls = 1
    /\ pwExit = "returned"
    /\ Len(fetchLog) >= 2

\* ------------------------------------------------------ C30: breadth-first
\* C30: every fetch is of a depth no smaller than the fetch before it, and no
\* task whose url is unvisited waits in the queue with a smaller depth.
C30_BreadthFirst ==
    [][ fetchLog' # fetchLog =>
          LET d == LastOf(fetchLog').depth
          IN  /\ fetchLog # <<>> => LastOf(fetchLog).depth <= d
              /\ \A i \in 1..Len(queue) :
                    queue[i].url \notin visited => queue[i].depth >= d ]_vars

\* C30 witness: pages of depth 0, 1, 1 and 2 were fetched, in that order.
C30_Witness ==
    /\ Len(fetchLog) >= 4
    /\ fetchLog[1].depth = 0
    /\ fetchLog[2].depth = 1
    /\ fetchLog[3].depth = 1
    /\ LastOf(fetchLog).depth = 2

RECURSIVE RunAlone(_)
RunAlone(f) == IF f.pc = "returned" THEN f ELSE RunAlone(FrameStep(f))

NewRows(c) == Payloads(calls[c].system_code, calls[c].menus, calls[c].creator)

\* C22: when collect_system_menus has ended, normally or with an error, the
\* system's stored rows are the previous set or the new set.
C22_ReplaceAllOrNothing ==
    \A c \in DOMAIN calls :
        calls[c].pc \in {"returned", "failed"} =>
            \/ stored[calls[c].system_code] = calls[c].before
            \/ /\ calls[c].error \in {"none", "insert"}
               /\ stored[calls[c].system_code] = NewRows(c)

\* ----------------------------------------------------- C23: created_by chain
\* The first of the values that is not empty.
FirstNonEmpty(values) ==
    LET idx == { i \in 1..Len(values) : values[i] # <<>> }
    IN  values[CHOOSE i \in idx : \A j \in idx : i <= j]

\* The first of the values that is not blank, without the space around it.
FirstNonBlank(values) ==
    LET idx == { i \in 1..Len(values) : Strip(values[i]) # <<>> }
    IN  Strip(values[CHOOSE i \in idx : \A j \in idx : i <= j])

\* C23: every row a call inserted carries the first non-empty of the caller's
\* value, the record's updated_by, the record's created_by and "system"
\* (whether a value of spaces only counts as empty or not), and never an
\* empty one.
C23_CreatedByChain ==
    \A c \in DOMAIN calls :
        (calls[c].pc = "returned" /\ calls[c].menus # <<>>) =>
            LET chain == <<calls[c].created_by, calls[c].record.updated_by,
                           calls[c].record.created_by, N_System>>
                rows == stored[calls[c].system_code]
            IN  \A i \in 1..Len(rows) :
                    /\ rows[i].created_by # <<>>
                    /\ rows[i].created_by \in {FirstNonEmpty(chain), FirstNonBlank(chain)}

\* ------------------------------------- C31: the frontier ignores the classifier
\* C31: when a page within the depth bound has been parsed, every anchor of
\* it whose href normalizes to a url not yet visited has a task appended at
\* depth + 1, whatever its text.
C31_FrontierIndependent ==
    [][ (pc = "crawl" /\ fetchLog' # fetchLog /\ last' = "ok"
           /\ LastOf(fetchLog').depth + 1 <= maxDepth) =>
          LET cur == LastOf(fetchLog').url
              soup == Page(siteN, cur.path)
          IN  \A i \in 1..Len(soup) :
                LET u == normalize_url(cur, soup[i].href, domain)
                IN  (u # NoUrl /\ u \notin visited') =>
                      \E t \in Appended(queue, queue') :
                          t.url = u /\ t.depth = LastOf(fetchLog').depth + 1 ]_vars

\* C31 witness: the root page was parsed, its "Contact Us" anchor (forbidden
\* text) gave no candidate, and its url waits in the queue at depth 1.
C31_Witness ==
    /\ pc = "crawl"
    /\ last = "ok"
    /\ Len(fetchLog) = 1
    /\ \E i \in 1..Len(queue) : queue[i].url.path = 900 /\ queue[i].depth = 1
    /\ \A i \in 1..Len(results) : results[i].url.path # 900
    /\ results # <<>>

\* ------------------------------------------------------- C32: breadcrumb path
\* The whitespace-normalized label of the k-th ancestor (1: innermost).
LabelAt(anc, k) == clean_text(AncestorLabel(anc[k]))

\* The innermost ancestor that carries label l.
InnermostWith(anc, l) ==
    CHOOSE k \in 1..Len(anc) :
        LabelAt(anc, k) = l /\ \A j \in 1..(k - 1) : LabelAt(anc, j) # l

\* C32: the path derived for an anchor holds each label of its ancestors
\* once and nothing else, ordered from the outermost ancestor to the
\* innermost.
C32_PathOutermostFirstNoDuplicates ==
    unitPc = "derived" =>
        LET anc == cSoup[1].anc
            path == cOut
        IN  /\ \A i, j \in 1..Len(path) : i # j => path[i] # path[j]
            /\ \A i \in 1..Len(path) :
                  path[i] # <<>> /\ \E k \in 1..Len(anc) : LabelAt(anc, k) = path[i]
            /\ \A k \in 1..Len(anc) :
                  LabelAt(anc, k) # <<>> => \E i \in 1..Len(path) : path[i] = LabelAt(anc, k)
            /\ \A i, j \in 1..Len(path) :
                  i < j => InnermostWith(anc, path[i]) > InnermostWith(anc, path[j])

\* C32 witness: an anchor inside <nav aria-label="Main"> inside
\* <ul class="gnb"> inside another <nav aria-label="Main"> got the path
\* gnb, Main: the repeated label once, the outer list first.
C32_Witness ==
    /\ unitPc = "derived"
    /\ cSoup[1].anc = <<E_Nav, E_Ul, E_Nav>>
    /\ Len(cOut) = 2
    /\ cOut[2] = E_Nav.aria

\* ------------------------------------- C33: failures before the replace step
\* C33: a call that failed in the lookup (query error, system not found, no
\* domain) or in the extraction left the system's stored rows as they were.
C33_EarlyFailureKeepsRows ==
    \A c \in DOMAIN calls :
        (calls[c].pc = "failed"
           /\ calls[c].error \in {"lookup", "not_found", "no_domain", "extract"}) =>
            stored[calls[c].system_code] = calls[c].before

\* C33 witness: the extraction raised for a system that has stored rows, and
\* the rows are still there.
C33_Witness ==
    /\ calls[1].pc = "failed"
    /\ calls[1].error = "extract"
    /\ calls[1].before # <<>>
    /\ stored[calls[1].system_code] = calls[1].before

\* --------------------------------------------- C34: the new rows, nothing else
\* C34: after a call that returned, the system's stored rows are one row per
\* returned menu, with its menu_name and path, and no other row.
C34_StoredIsNewSet ==
    \A c \in DOMAIN calls :
        calls[c].pc = "returned" =>
            LET rows == stored[calls[c].system_code]
                menus == calls[c].menus
            IN  /\ Len(rows) = Len(menus)
                /\ \A i \in 1..Len(rows) :
                      /\ rows[i].system_code = calls[c].system_code
                      /\ rows[i].menu_name = menus[i].menu_name
                      /\ rows[i].path = menus[i].path

\* C34 witness: a system with two old rows holds the two rows of the new
\* extraction and none of the old ones.
C34_Witness ==
    /\ calls[1].pc = "returned"
    /\ Len(calls[1].before) = 2
    /\ Len(calls[1].menus) = 2
    /\ Len(stored[calls[1].system_code]) = 2
    /\ \A i \in 1..2 : stored[calls[1].system_code][i] \notin Range(calls[1].before)

\* -------------------------------------------- C36: other systems are left alone
\* C36: the rows of a system change only in the delete or insert step of a
\* call for that system, and the extraction step of a call changes no row.
C36_OnlyOwnRowsWritten ==
    [][ /\ \A code \in DOMAIN stored :
              stored'[code] # stored[code] =>
                  \E c \in DOMAIN calls :
                      /\ calls[c].system_code = code
                      /\ calls[c].pc \in {"delete", "insert"}
                      /\ calls'[c] # calls[c]
        /\ (\E c \in DOMAIN calls : calls[c].pc = "extract" /\ calls'[c] # calls[c]) =>
              stored' = stored ]_vars

\* C36 witness: the rows of S1 were replaced and those of S2 are the ones it
\* had.
C36_Witness ==
    /\ calls[1].pc = "returned"
    /\ calls[1].system_code = "S1"
    /\ stored["S1"] # calls[1].before
    /\ stored["S1"] # <<>>
    /\ stored["S2"] = PriorRows("S2")

\* ------------------------------------- C35: two collections of the same system
\* C35: when two collect calls for the same system have both returned, the
\* system's rows are the rows of one of the two calls.
C35_OneRunsRowsRemain ==
    (/\ DOMAIN calls = {1, 2}
     /\ calls[1].system_code = calls[2].system_code
     /\ calls[1].pc = "returned"
     /\ calls[2].pc = "returned") =>
        stored[calls[1].system_code] \in {NewRows(1), NewRows(2)}

\* ------------------------------------------------ C37: delete_system completed
\* C37: once a delete_system call has completed, no stored menu row refers
\* to its system.
C37_NoRowsOfDeletedSystem ==
    \A c \in DOMAIN calls :
        calls[c].pc = "ds_returned" => stored[calls[c].system_code] = <<>>

\* ------------------------------------- C39: the script and the in-process copy
\* C39: a run of the script that has ended made the fetches, in the order,
\* and gave the source, domain and ordered menu list that the in-process
\* extraction gives for the same seed, depth and site behaviour; it failed
\* where the in-process extraction fails.
C39_ScriptEqualsInternal ==
    (Ended /\ env # NoEnv) =>
        LET internal == InternalCollect(seedUrl, depthArg, siteN, env)
        IN  /\ pc = internal.end
            /\ fetchLog = internal.fetched
            /\ domain = internal.domain
            /\ pc = "done" => (source = internal.source /\ menuList = internal.menus)

\* C39 witness: on a site with a failing page the script fetched three pages
\* or more and returned four menus or more, and the in-process extraction
\* gives the same fetches and the same menus.
C39_Witness ==
    /\ pc = "done"
    /\ env # NoEnv
    /\ env.bad # {}
    /\ Len(fetchLog) >= 3
    /\ Len(menuList) >= 4
    /\ fetchLog = InternalCollect(seedUrl, depthArg, siteN, env).fetched
    /\ menuList = InternalCollect(seedUrl, depthArg, siteN, env).menus

\* ------------------------------------- the script first, the in-process copy second
\* _collect_menu_candidates(url, depth, timeout, user_agent): wrap holds the
\* arguments, the interpreter chosen, what an extraction can end with, which of the two extractions ran
\* (tried), how the script path ended (script), and what reached the caller
\* (result or error).
NoSummary == [source |-> "", domain |-> <<>>, count |-> 0, used_playwright |-> FALSE,
              script |-> FALSE]
NoCollected == [summary |-> NoSummary, menus |-> <<>>]
NoError == [from |-> "none", kind |-> "none"]

\* VIRTUAL_ENV unset, set to a directory without a python, or set to one with.
VirtualEnvs == {"unset", "no_python", "python"}

\* _resolve_python_interpreter(): the python of VIRTUAL_ENV when that file
\* exists, sys.executable otherwise.
resolve_python_interpreter(venv) ==
    IF venv # "unset" /\ venv = "python" THEN "venv_python" ELSE "sys_executable"

\* How the script path can fail, by the except clause that catches it.
ScriptValueErrors == {"nonzero_exit", "empty_stdout", "unparsable_stdout"}
ScriptUnexpectedErrors == {"spawn_error", "payload_not_object"}
ScriptFailures == {"file_missing"} \cup ScriptValueErrors \cup ScriptUnexpectedErrors

\* The summary _collect_menu_candidates_via_script builds from the payload the
\* script printed.
ScriptSummary(payload) ==
    [source |-> IF payload.source = "" THEN "extract_menu.py" ELSE payload.source,
     domain |-> payload.domain,
     count |-> Len(payload.menus),
     used_playwright |-> payload.source = "playwright",
     script |-> TRUE]

\* The summary _collect_menu_candidates_internal builds; it has no "script" key.
InternalSummary(r) ==
    [source |-> r.source, domain |-> r.domain, count |-> Len(r.menus),
     used_playwright |-> r.source = "playwright", script |-> FALSE]

\* What the site and the engine may do while one of the two extractions runs,
\* and what an extraction of url to depth can end with: the script is the
\* in-process extraction line for line, so the ends are the same for both.
WrapEnvs(n) == {e \in Envs(n) : e.how = "error" /\ e.bad \in {{}, {1}}}
ExtractionEnds(url, depth, n) ==
    {[end |-> r.end, source |-> r.source, domain |-> r.domain, menus |-> r.menus] :
        r \in {InternalCollect(url, depth, n, e) : e \in WrapEnvs(n)}}

\* The except clause was entered: nothing is returned yet, the handler only logs.
ScriptFailed(reason) ==
    wrap' = [wrap EXCEPT !.pc = "script_failed", !.script = reason,
                         !.tried = Append(@, "script")]

\* `if not EXTRACT_MENU_SCRIPT.exists(): raise FileNotFoundError`, caught by
\* `except FileNotFoundError`.
ScriptFileMissing ==
    /\ wrap.pc = "called"
    /\ ScriptFailed("file_missing")
    /\ UNCHANGED <<pipelineVars, unitVars, envVars, concVars, storeVars>>

\* The three ValueErrors of the script path (return code not 0, nothing on
\* stdout, stdout that is not JSON), caught by `except ValueError`.  The
\* script exits with a status other than 0 at least when it rejects the url.
ScriptValueError ==
    /\ wrap.pc = "called"
    /\ \E reason \in ScriptValueErrors :
          /\ SeedMalformed(wrap.url) => reason = "nonzero_exit"
          /\ ScriptFailed(reason)
    /\ UNCHANGED <<pipelineVars, unitVars, envVars, concVars, storeVars>>

\* Mutant: no `except Exception` clause, the error leaves the function.
ScriptUnexpectedPropagates ==
    /\ wrap.pc = "called"
    /\ \E reason \in ScriptUnexpectedErrors :
          wrap' = [wrap EXCEPT !.pc = "failed", !.script = reason,
                               !.tried = Append(@, "script"),
                               !.error = [from |-> "script", kind |-> reason]]
    /\ UNCHANGED <<pipelineVars, unitVars, envVars, concVars, storeVars>>

\* Any other exception of the script path (subprocess.run cannot start the
\* interpreter, the JSON printed is not an object), caught by `except Exception`.
ScriptUnexpected ==
    /\ wrap.pc = "called"
    /\ \E reason \in ScriptUnexpectedErrors : ScriptFailed(reason)
    /\ UNCHANGED <<pipelineVars, unitVars, envVars, concVars, storeVars>>

\* The script ran to its end on some behaviour of the site and printed its
\* payload: the result is built from it and returned.
ScriptOk ==
    /\ wrap.pc = "called"
    /\ \E run \in wrap.ends :
          LET payload == [source |-> run.source, domain |-> run.domain, menus |-> run.menus]
              menus == payload.menus
          IN  /\ run.end = "done"
              /\ wrap' = [wrap EXCEPT !.pc = "returned", !.script = "ok",
                                      !.tried = Append(@, "script"),
                                      !.result = [summary |-> ScriptSummary(payload),
                                                  menus |-> menus]]
    /\ UNCHANGED <<pipelineVars, unitVars, envVars, concVars, storeVars>>

\* `return _collect_menu_candidates_internal(...)` after a handler: the
\* in-process extraction returns.
InternalReturns ==
    /\ wrap.pc = "script_failed"
    /\ \E r \in wrap.ends :
          /\ r.end = "done"
          /\ wrap' = [wrap EXCEPT !.pc = "returned",
                                  !.tried = Append(@, "internal"),
                                  !.result = [summary |-> InternalSummary(r),
                                              menus |-> r.menus]]
    /\ UNCHANGED <<pipelineVars, unitVars, envVars, concVars, storeVars>>

\* ... or raises: the ValueError for a url without scheme or host, or what
\* the rendering crawler let through.
InternalRaises ==
    /\ wrap.pc = "script_failed"
    /\ \E r \in wrap.ends :
          /\ r.end # "done"
          /\ wrap' = [wrap EXCEPT !.pc = "failed",
                                  !.tried = Append(@, "internal"),
                                  !.error = [from |-> "internal", kind |-> r.end]]
    /\ UNCHANGED <<pipelineVars, unitVars, envVars, concVars, storeVars>>

WrapInit ==
    /\ seedUrl = SeedPlain /\ depthArg = 0 /\ siteN = 0
    /\ pc = "service"
    /\ LocalsEmpty
    /\ unitPc = "off"
    /\ UnitIdle
    /\ EnvOpen
    /\ ConcIdle
    /\ StoreIdle
    /\ \E i \in ReplayInputs, venv \in VirtualEnvs :
          wrap = [pc |-> "called", url |-> i.seed, depth |-> i.depth, n |-> i.n,
                  ends |-> ExtractionEnds(i.seed, i.depth, i.n),
                  interpreter |-> resolve_python_interpreter(venv),
                  tried |-> <<>>, script |-> "none",
                  result |-> NoCollected, error |-> NoError]

WrapNext ==
    \/ ScriptFileMissing
    \/ ScriptValueError
    \/ ScriptUnexpected
    \/ ScriptOk
    \/ InternalReturns
    \/ InternalRaises

WrapSpec == WrapInit /\ [][WrapNext]_vars

\* ------------------------------------- C38: the fallback
\* C38: the script is tried first; the in-process extraction runs exactly when
\* the script path failed (file missing, exit status, empty or unparsable
\* output, any other exception), and then after the script; when the script
\* succeeds its result is what is returned and the in-process extraction has
\* not run; an error that reaches the caller was raised by the in-process
\* extraction.
C38_InternalIffScriptFailed ==
    wrap.pc # "idle" =>
        LET internalRan == \E k \in DOMAIN wrap.tried : wrap.tried[k] = "internal"
            over == wrap.pc \in {"returned", "failed"}
        IN  /\ internalRan => wrap.tried = <<"script", "internal">>
            /\ internalRan => wrap.script \in ScriptFailures
            /\ over => (internalRan <=> wrap.script # "ok")
            /\ (over /\ wrap.script = "ok") =>
                  /\ wrap.pc = "returned"
                  /\ wrap.result.summary.script
                  /\ wrap.tried = <<"script">>
            /\ (wrap.pc = "returned" /\ internalRan) => ~wrap.result.summary.script
            /\ wrap.pc = "failed" => wrap.error.from = "internal"
            /\ wrap.pc = "returned" => wrap.error = NoError

\* C38 witness: the script printed something that is not a JSON object, and
\* the in-process extraction then returned four menus.
C38_Witness ==
    /\ wrap.pc = "returned"
    /\ wrap.script = "payload_not_object"
    /\ wrap.tried = <<"script", "internal">>
    /\ ~wrap.result.summary.script
    /\ Len(wrap.result.menus) >= FallbackThreshold

====
